---------------------------- MODULE Spec2Model ----------------------------
(***************************************************************************)
(* Line-follower control core of jerry-314: the cooperative periodic       *)
(* scheduler (BigLoop), the line position estimator (Sensor_readBlack /    *)
(* Jerry_lineRead), the feedback controller (PID) and the serial command   *)
(* protocol (CommandHandler).                                              *)
(*                                                                         *)
(* Each component has its own specification over the shared variables:     *)
(*   SchedSpec  one BigLoop object driven by the millisecond clock         *)
(*   EstSpec    the estimator fed with sensor frames                       *)
(*   PidSpec    the PID object driven through its public interface         *)
(*   CmdSpec    the command handlers fed with lines of every family        *)
(*   LogSpec    the command handlers fed with the lines of the log family  *)
(* A component's specification leaves the other components' variables      *)
(* at their constructed values.  Three specifications run loop() after     *)
(* setup(), with commands, control cycles and the clock interleaved:       *)
(*   LoopSpec       gain, flag and motor commands, IR commands, buttons    *)
(*   TelemetrySpec  the commands that clear the S, L and O flags           *)
(*   ThrottleSpec   the gain telemetry under a finely stepped clock        *)
(*   DriveSpec      base speeds set by command and by IR, wheel outputs    *)
(***************************************************************************)
EXTENDS Integers, Sequences, FiniteSets, TLC

VARIABLES
    \* ---- BigLoop (src/unnamed/part_004) ----
    intervalMs,         \* uint32_t intervalMs
    lastExecutionTime,  \* uint32_t lastExecutionTime
    millis,             \* the value millis() returns now
    \* observations of the scheduler's calls
    wrapped,            \* the clock has wrapped past its maximum at least once
    calls,              \* number of shouldExecuteTask() calls so far, capped at 2
    retval,             \* what the latest shouldExecuteTask() call returned
    trueCount,          \* calls that returned true since construction; 0 once the clock has wrapped
    sinceFire,          \* ms since the latest call that returned true (-1: none), capped at intervalMs + 1
    snapAge,            \* ms since the latest call made >= 2 periods late (-1: none), capped at intervalMs + 1
    \* ---- line position estimator (src/lib/IR/IR.h, src/lib/Jerry/Jerry.cpp) ----
    build,              \* which estimator the firmware is built with: "sensor" (Sensor_readBlack) or "jerry" (Jerry_lineRead)
    adc_line,           \* uint16_t adc_line[ANALOG_PIN_COUNT]
    last_line_pos,      \* int16_t last_line_pos
    edgeDiffThreshold,  \* uint16_t edgeDiffThreshold
    line,               \* int16_t line: what the latest estimator call returned
    \* ---- PID (src/unnamed/part_003) ----
    kp_, ki_, kd_,      \* double gains
    lastError_,         \* double lastError_
    integral_,          \* double integral_
    outputMin_,         \* double outputMin_
    outputMax_,         \* double outputMax_
    limitsEnabled_,     \* bool limitsEnabled_
    output,             \* what the latest compute() call returned (0.0 before the first)
    \* observations of the controller's calls
    fresh,              \* no compute() call since construction or the latest reset()
    zeroRun,            \* consecutive compute(0.0) calls just made with no other call since, capped at MaxZeroRun
    \* ---- command protocol (src/unnamed/part_001, src/src/main.cpp) ----
    baseSpeed,          \* int16_t baseSpeed
    loggingFlags,       \* LoggingFlags loggingFlags: logP, logI, logD, logS, logL, logO
    motorEn,            \* level of MOTOR_EN_PIN: TRUE is HIGH (power stage enabled)
    serial,             \* the lines the latest command line, IR command or button press wrote to Serial
    cmdline,            \* the tokens of the latest command line (<<>> before the first)
    \* ---- main loop (src/src/main.cpp, src/tools/line_sensor_app/README.md, src/lib/Logger) ----
    inCycle,            \* loop() is inside the control task: the output is set, the telemetry not yet written
    motorSpeed,         \* int16_t motorSpeed
    motorPwm,           \* the left and right values Motor_setSpeed last wrote to the PWM pins
    lastPidLog,         \* unsigned long lastPidLog
    telemetry,          \* the lines the latest control cycle wrote to Serial
    \* observation of the telemetry
    sinceEmit           \* ms since the latest cycle that wrote a pid line, capped at LoopClockMod (the cap: none yet)

schedVars == <<intervalMs, lastExecutionTime, millis, wrapped, calls, retval,
               trueCount, sinceFire, snapAge>>

estVars == <<build, adc_line, last_line_pos, edgeDiffThreshold, line>>

pidVars == <<kp_, ki_, kd_, lastError_, integral_, outputMin_, outputMax_,
             limitsEnabled_, output, fresh, zeroRun>>

cmdVars == <<baseSpeed, loggingFlags, motorEn, serial, cmdline>>

loopVars == <<inCycle, motorSpeed, motorPwm, lastPidLog, telemetry, sinceEmit>>

vars == <<schedVars, estVars, pidVars, cmdVars, loopVars>>

-----------------------------------------------------------------------------
(* Bounds of the model *)

\* the uint32_t millisecond clock and timestamps are modelled ClockBits wide
ClockBits == 5
\* periods the BigLoop constructor is given: 1..MaxPeriod
MaxPeriod == 4
\* the clock advances by 1..MaxStep ms between two steps of the program
MaxStep == 3

ClockMod == 2 ^ ClockBits

\* ambient light adds k * AmbientStep to every channel, k in 0..MaxAmbient
MaxAmbient == 1
AmbientStep == 23

\* compute() is called only while |integral_ + error| <= MaxIntegral
MaxIntegral == 200

\* consecutive compute(0.0) calls are counted up to MaxZeroRun
MaxZeroRun == 2

-----------------------------------------------------------------------------
(* BigLoop *)

\* mutant: subtraction that stops at 0 instead of wrapping
USub_NoWrap(a, b) == IF a >= b THEN a - b ELSE 0

\* unsigned subtraction a - b of two timestamps
USub(a, b) == (a - b + ClockMod) % ClockMod

\* unsigned addition a + b of two timestamps
UAdd(a, b) == (a + b) % ClockMod

\* mutant: the task is admitted only once two periods have elapsed
IsDue_TwoPeriods(currentTime, last, interval) == USub(currentTime, last) >= 2 * interval
\* mutant: the due test passes one millisecond early
IsDue_Early(currentTime, last, interval) == USub(currentTime, last) + 1 >= interval

\* mutant: the due test written with > instead of >=
IsDue_Strict(currentTime, last, interval) == USub(currentTime, last) > interval

\* if (currentTime - lastExecutionTime >= intervalMs)
IsDue(currentTime, last, interval) == USub(currentTime, last) >= interval

\* mutant: the timestamp is set to the current time whenever the task is admitted
NextExecutionTime_Now(currentTime, last, interval) == currentTime

\* mutant: the timestamp is not advanced when the task is admitted
NextExecutionTime_NotUpdated(currentTime, last, interval) == last

\* mutant: the catch-up branch is missing
NextExecutionTime_NoCatchUp(currentTime, last, interval) == UAdd(last, interval)

\* mutant: the catch-up test written with > instead of >=
NextExecutionTime_StrictCatchUp(currentTime, last, interval) ==
    LET advanced == UAdd(last, interval)
    IN  IF USub(currentTime, advanced) > interval
        THEN currentTime
        ELSE advanced

\* the value of lastExecutionTime after the body of the if
NextExecutionTime(currentTime, last, interval) ==
    LET advanced == UAdd(last, interval)
    IN  IF USub(currentTime, advanced) >= interval
        THEN currentTime
        ELSE advanced

\* the call is made two periods or more after lastExecutionTime
Stalled == USub(millis, lastExecutionTime) >= 2 * intervalMs

\* an age d ms later: exact up to intervalMs, intervalMs + 1 for anything longer
Age(a, d) == IF a < 0 THEN a ELSE IF a + d > intervalMs THEN intervalMs + 1 ELSE a + d

\* BigLoop::BigLoop(uint32_t intervalMs)
BigLoop(interval) ==
    /\ intervalMs = interval
    /\ lastExecutionTime = 0
    /\ millis = 0
    /\ wrapped = FALSE
    /\ calls = 0
    /\ retval = FALSE
    /\ trueCount = 0
    /\ sinceFire = -1
    /\ snapAge = -1

\* bool BigLoop::shouldExecuteTask()
ShouldExecuteTask ==
    LET currentTime == millis
        due == IsDue(currentTime, lastExecutionTime, intervalMs)
    IN  /\ lastExecutionTime' =
              IF due THEN NextExecutionTime(currentTime, lastExecutionTime, intervalMs)
                     ELSE lastExecutionTime
        /\ retval' = due
        /\ calls' = IF calls < 2 THEN calls + 1 ELSE calls
        /\ trueCount' = IF wrapped THEN 0 ELSE IF due THEN trueCount + 1 ELSE trueCount
        /\ sinceFire' = IF due THEN 0 ELSE sinceFire
        /\ snapAge' = IF Stalled THEN 0 ELSE snapAge
        /\ UNCHANGED <<intervalMs, millis, wrapped>>
        /\ UNCHANGED <<estVars, pidVars, cmdVars, loopVars>>

\* millis() advances by d ms, wrapping at the clock's width
Tick(d) ==
    /\ millis' = UAdd(millis, d)
    /\ wrapped' = (wrapped \/ millis + d >= ClockMod)
    /\ trueCount' = IF wrapped' THEN 0 ELSE trueCount
    /\ sinceFire' = Age(sinceFire, d)
    /\ snapAge' = Age(snapAge, d)
    /\ UNCHANGED <<intervalMs, lastExecutionTime, calls, retval>>
    /\ UNCHANGED <<estVars, pidVars, cmdVars, loopVars>>

-----------------------------------------------------------------------------
(* Line position estimator *)

ANALOG_PIN_COUNT == 8
MIN_CONTRAST == 200
MIN_SIGNAL_SUM == 100
EDGE_DIFF_THRESHOLD == 100

Channels == 0..(ANALOG_PIN_COUNT - 1)

\* mutant: the weights are not centred on the array (-60, -45, ..., 45)
WEIGHT2_OffCentre(i) == 15 * (2 * i - 8)

\* WEIGHT[i], doubled so that it is an integer: -105, -75, ..., 75, 105
WEIGHT2(i) == 15 * (2 * i - 7)

\* the conversion (int16_t)x of a 16-bit unsigned value
ToInt16(x) == ((x + 32768) % 65536) - 32768

\* mutant: a conversion that rounds toward minus infinity
TruncDiv_Floor(a, b) == a \div b

\* a / b rounded toward zero, b > 0: the conversion (int16_t)line_pos_d
TruncDiv(a, b) == IF a >= 0 THEN a \div b ELSE -((-a) \div b)

\* findMinMax: *min_val after the loop
FindMin(array) ==
    CHOOSE m \in {array[i] : i \in Channels} : \A i \in Channels : m <= array[i]

\* findMinMax: *max_val after the loop
FindMax(array) ==
    CHOOSE m \in {array[i] : i \in Channels} : \A i \in Channels : m >= array[i]

\* uint16_t contrast = max_val - min_val
Contrast(array) == FindMax(array) - FindMin(array)

\* if (contrast < MIN_CONTRAST)
LowContrast(array) == Contrast(array) < MIN_CONTRAST

\* mutant: the edge test written with > instead of >=
CheckEdgeDetection_Strict(max_val, adc_array, edge_idx, threshold) ==
    /\ max_val = adc_array[edge_idx]
    /\ LET neighbour == edge_idx + (IF edge_idx = 0 THEN 1 ELSE -1)
       IN  adc_array[edge_idx] - adc_array[neighbour] > threshold

\* checkEdgeDetection(max_val, adc_array, edge_idx, threshold, &result) returns true
CheckEdgeDetection(max_val, adc_array, edge_idx, threshold) ==
    /\ max_val = adc_array[edge_idx]
    /\ LET neighbour == edge_idx + (IF edge_idx = 0 THEN 1 ELSE -1)
           diff == ToInt16(ToInt16(adc_array[edge_idx]) - ToInt16(adc_array[neighbour]) + 65536)
       IN  diff >= threshold

\* mutant: both edges report the left extreme
EdgeValue_LeftOnly(edge_idx) == -127

\* mutant: the left extreme written as the int8_t minimum
EdgeValue_Int8Min(edge_idx) == IF edge_idx = 0 THEN -128 ELSE 127

\* *result = (edge_idx == 0) ? -127 : 127
EdgeValue(edge_idx) == IF edge_idx = 0 THEN -127 ELSE 127

\* the edge, if any, the || of the two checkEdgeDetection calls reports: -1 for none
DetectedEdge(array, threshold) ==
    IF CheckEdgeDetection(FindMax(array), array, 0, threshold) THEN 0
    ELSE IF CheckEdgeDetection(FindMax(array), array, ANALOG_PIN_COUNT - 1, threshold)
         THEN ANALOG_PIN_COUNT - 1
         ELSE -1

\* mutant: the readings are scaled down by 4 after the background is removed
Normalized_Quarter(reading, min_val) ==
    IF reading > min_val THEN (reading - min_val) \div 4 ELSE 0

\* mutant: the background is not removed
Normalized_Raw(reading, min_val) == reading

\* uint16_t normalized = (adc_line[i] > min_val) ? (adc_line[i] - min_val) : 0
Normalized(reading, min_val) ==
    IF reading > min_val THEN reading - min_val ELSE 0

\* sum after iterations 0..i of the loop
RECURSIVE SumUpTo(_, _, _)
SumUpTo(array, min_val, i) ==
    IF i < 0 THEN 0
    ELSE SumUpTo(array, min_val, i - 1) + Normalized(array[i], min_val)

\* weighted_sum after iterations 0..i of the loop, doubled
RECURSIVE WeightedUpTo(_, _, _)
WeightedUpTo(array, min_val, i) ==
    IF i < 0 THEN 0
    ELSE WeightedUpTo(array, min_val, i - 1) + Normalized(array[i], min_val) * WEIGHT2(i)

\* sum after the loop
SignalSum(array) == SumUpTo(array, FindMin(array), ANALOG_PIN_COUNT - 1)

\* weighted_sum after the loop, doubled
WeightedSum2(array) == WeightedUpTo(array, FindMin(array), ANALOG_PIN_COUNT - 1)

\* if (sum < MIN_SIGNAL_SUM)
LowSignal(array) == SignalSum(array) < MIN_SIGNAL_SUM

\* line_pos: (weighted_sum / sum) * (127.0 / 52.5), clamped to [-127, 127] and
\* converted to int16_t. With weights doubled the quotient is
\* 127 * WeightedSum2 / (105 * sum), evaluated exactly here; for every frame of
\* Frames and every threshold of ThresholdValues the IEEE binary32 and binary64
\* evaluations of the source expression convert to the same integer.
Centroid(array) ==
    LET num == 127 * WeightedSum2(array)
        den == 105 * SignalSum(array)
    IN  IF num > 127 * den THEN 127
        ELSE IF num < -127 * den THEN -127
        ELSE TruncDiv(num, den)

\* reflectance of the line above the ambient level, per channel
LineLevels == {0, 100, 200, 300}

AmbientLevels == {k * AmbientStep : k \in 0..MaxAmbient}

\* the line raises one channel, or two channels: the adjacent pair at the left
\* edge, at the centre or at the right edge, or a mirrored pair
BlobPairs == {<<0, 1>>, <<3, 4>>, <<6, 7>>, <<0, 7>>, <<1, 6>>, <<2, 5>>}

\* the frames analogRead delivers in this model (10-bit ADC values)
Frames ==
    {[i \in Channels |-> IF i = p[1] THEN bg + la ELSE IF i = p[2] THEN bg + lb ELSE bg] :
        bg \in AmbientLevels, p \in BlobPairs, la \in LineLevels, lb \in LineLevels}

\* values Sensor_setEdgeDiffThreshold is called with
ThresholdValues == {100, 150}

\* an estimator that looks for an edge before it tests the contrast
Branch_EdgeFirst(array, threshold) ==
    IF DetectedEdge(array, threshold) >= 0
    THEN [hold |-> FALSE, pos |-> EdgeValue(DetectedEdge(array, threshold))]
    ELSE IF LowContrast(array) THEN [hold |-> TRUE, pos |-> 0]
    ELSE IF LowSignal(array) THEN [hold |-> TRUE, pos |-> 0]
    ELSE [hold |-> FALSE, pos |-> Centroid(array)]

\* the branch the estimator takes on a frame, and the position the frame
\* yields when the branch is not a hold
Branch(array, threshold) ==
    IF LowContrast(array) THEN [hold |-> TRUE, pos |-> 0]
    ELSE IF DetectedEdge(array, threshold) >= 0
    THEN [hold |-> FALSE, pos |-> EdgeValue(DetectedEdge(array, threshold))]
    ELSE IF LowSignal(array) THEN [hold |-> TRUE, pos |-> 0]
    ELSE [hold |-> FALSE, pos |-> Centroid(array)]

\* Branch, evaluated once per frame and threshold
BranchOf == [array \in Frames, threshold \in ThresholdValues \cup {EDGE_DIFF_THRESHOLD} |->
                Branch(array, threshold)]

\* mutant: a hold returns the centre instead of the last position
HoldPosition_Centre(last) == 0

\* return last_line_pos (the two hold branches)
HoldPosition(last) == last

\* the body of Sensor_readBlack / Jerry_lineRead after the ADC reads:
\* the value returned and the new last_line_pos
EstimateLine(array, last, threshold) ==
    LET b == BranchOf[array, threshold]
    IN  IF b.hold
        THEN [ret |-> HoldPosition(last), last |-> last]
        ELSE [ret |-> b.pos, last |-> b.pos]

\* the file-scope initialisers of the estimator and of main's line
Est_Init(b) ==
    /\ build = b
    /\ adc_line = [i \in Channels |-> 0]
    /\ last_line_pos = 0
    /\ edgeDiffThreshold = 100
    /\ line = 0

\* the threshold the build's checkEdgeDetection compares with
CurrentThreshold == IF build = "jerry" THEN EDGE_DIFF_THRESHOLD ELSE edgeDiffThreshold

\* line = Sensor_readBlack()
Sensor_readBlack(frame) ==
    /\ build = "sensor"
    /\ adc_line' = frame
    /\ LET r == EstimateLine(frame, last_line_pos, edgeDiffThreshold)
       IN  last_line_pos' = r.last /\ line' = r.ret
    /\ UNCHANGED <<build, edgeDiffThreshold>>
    /\ UNCHANGED <<schedVars, pidVars, cmdVars, loopVars>>

\* line = Jerry_lineRead()
Jerry_lineRead(frame) ==
    /\ build = "jerry"
    /\ adc_line' = frame
    /\ LET r == EstimateLine(frame, last_line_pos, EDGE_DIFF_THRESHOLD)
       IN  last_line_pos' = r.last /\ line' = r.ret
    /\ UNCHANGED <<build, edgeDiffThreshold>>
    /\ UNCHANGED <<schedVars, pidVars, cmdVars, loopVars>>

\* void Sensor_setEdgeDiffThreshold(uint16_t threshold)
Sensor_setEdgeDiffThreshold(threshold) ==
    /\ build = "sensor"
    /\ edgeDiffThreshold' = threshold
    /\ UNCHANGED <<build, adc_line, last_line_pos, line>>
    /\ UNCHANGED <<schedVars, pidVars, cmdVars, loopVars>>

EstRead == Sensor_readBlack(adc_line') \/ Jerry_lineRead(adc_line')

-----------------------------------------------------------------------------
(* PID *)

(***************************************************************************)
(* A double is a record: a finite value, held exactly in thousandths, or   *)
(* one of the IEEE 754 values NaN, +Infinity (v = 1), -Infinity (v = -1).  *)
(* Errors are whole numbers (the control loop passes (double)line), so     *)
(* every product of a gain and an error, an error difference or the        *)
(* integral is exact in thousandths.  The values of the model are far from *)
(* the overflow and rounding thresholds of both binary32 and binary64.     *)
(***************************************************************************)
Fin(x) == [c |-> "fin", v |-> x]
NaN == [c |-> "nan", v |-> 0]
PInf == [c |-> "inf", v |-> 1]

\* a whole number as a double
Whole(n) == Fin(1000 * n)

Sgn(x) == IF x > 0 THEN 1 ELSE IF x < 0 THEN -1 ELSE 0

\* a + b
DAdd(a, b) ==
    IF a.c = "nan" \/ b.c = "nan" THEN NaN
    ELSE IF a.c = "inf" /\ b.c = "inf" THEN (IF a.v = b.v THEN a ELSE NaN)
    ELSE IF a.c = "inf" THEN a
    ELSE IF b.c = "inf" THEN b
    ELSE Fin(a.v + b.v)

\* -a
DNeg(a) == IF a.c = "nan" THEN NaN ELSE [c |-> a.c, v |-> -a.v]

\* a - b
DSub(a, b) == DAdd(a, DNeg(b))

\* a * b
DMul(a, b) ==
    IF a.c = "nan" \/ b.c = "nan" THEN NaN
    ELSE IF a.c = "inf" \/ b.c = "inf"
    THEN (IF Sgn(a.v) * Sgn(b.v) = 0 THEN NaN
          ELSE [c |-> "inf", v |-> Sgn(a.v) * Sgn(b.v)])
    ELSE Fin((a.v * b.v) \div 1000)

\* a < b
DLt(a, b) ==
    /\ a.c # "nan"
    /\ b.c # "nan"
    /\ IF a.c = "inf" THEN a.v < 0 /\ b # a
       ELSE IF b.c = "inf" THEN b.v > 0
       ELSE a.v < b.v

\* a > b
DGt(a, b) == DLt(b, a)

\* a <= b
DLe(a, b) == a.c # "nan" /\ b.c # "nan" /\ ~DLt(b, a)

\* a >= b
DGe(a, b) == DLe(b, a)

\* a != b
DNe(a, b) == a.c = "nan" \/ b.c = "nan" \/ a # b

\* PID::PID(double kp, double ki, double kd)
PID(kp, ki, kd) ==
    /\ kp_ = kp
    /\ ki_ = ki
    /\ kd_ = kd
    /\ lastError_ = Fin(0)
    /\ integral_ = Fin(0)
    /\ outputMin_ = Fin(0)
    /\ outputMax_ = Fin(0)
    /\ limitsEnabled_ = FALSE
    /\ output = Fin(0)
    /\ fresh = TRUE
    /\ zeroRun = 0

\* double Kp=1.0, Ki=0.0, Kd=5.0; PID pidController(Kp, Ki, Kd);
PID_Init == PID(Fin(1000), Fin(0), Fin(5000))

\* double output_no_integral = kp_ * error + (error - lastError_) * kd_
OutputNoIntegral(error) ==
    DAdd(DMul(kp_, error), DMul(DSub(error, lastError_), kd_))

\* an anti-windup test on the integral as it was before the accumulation
Saturated_OldIntegral(error, accumulated) ==
    \/ DGe(OutputNoIntegral(error), outputMax_) /\ DGt(integral_, Fin(0))
    \/ DLe(OutputNoIntegral(error), outputMin_) /\ DLt(integral_, Fin(0))

\* the anti-windup test on the accumulated integral
Saturated(error, accumulated) ==
    \/ DGe(OutputNoIntegral(error), outputMax_) /\ DGt(accumulated, Fin(0))
    \/ DLe(OutputNoIntegral(error), outputMin_) /\ DLt(accumulated, Fin(0))

\* integral_ after the integral term accumulation
NextIntegral(error) ==
    IF DNe(ki_, Fin(0))
    THEN LET accumulated == DAdd(integral_, error)
         IN  IF limitsEnabled_ /\ Saturated(error, accumulated)
             THEN DSub(accumulated, error)
             ELSE accumulated
    ELSE integral_

\* the output without the integral term
RawOutput_NoIntegralTerm(error) ==
    DAdd(DMul(kp_, error), DMul(DSub(error, lastError_), kd_))

\* double output = kp_ * error + ki_ * integral_ + derivative
RawOutput(error) ==
    LET derivative == DMul(DSub(error, lastError_), kd_)
    IN  DAdd(DAdd(DMul(kp_, error), DMul(ki_, NextIntegral(error))), derivative)

\* apply output limits if enabled
Clamp(out) ==
    IF limitsEnabled_
    THEN IF DGt(out, outputMax_) THEN outputMax_
         ELSE IF DLt(out, outputMin_) THEN outputMin_
         ELSE out
    ELSE out

\* the errors (double)line the control loop passes to compute()
ErrorValues == {Whole(-100), Whole(0), Whole(100)}

\* the values atof() hands to setKp / setKi / setKd
GainValues == {Fin(0), Fin(2500), NaN, PInf}

\* the X of setOutputLimits(-X, X)
LimitValues == {Whole(0), Whole(255)}

\* a compute() that remembers the value it returns instead of the error
Compute_StoresOutput(error) ==
    /\ DLe(DAdd(integral_, error), Whole(MaxIntegral))
    /\ DGe(DAdd(integral_, error), Whole(-MaxIntegral))
    /\ integral_' = NextIntegral(error)
    /\ output' = Clamp(RawOutput(error))
    /\ lastError_' = Clamp(RawOutput(error))
    /\ fresh' = FALSE
    /\ zeroRun' = IF error # Fin(0) THEN 0
                  ELSE IF zeroRun < MaxZeroRun THEN zeroRun + 1 ELSE zeroRun
    /\ UNCHANGED <<kp_, ki_, kd_, outputMin_, outputMax_, limitsEnabled_>>
    /\ UNCHANGED <<schedVars, estVars, cmdVars, loopVars>>

\* double PID::compute(double error)
compute(error) ==
    /\ DLe(DAdd(integral_, error), Whole(MaxIntegral))
    /\ DGe(DAdd(integral_, error), Whole(-MaxIntegral))
    /\ integral_' = NextIntegral(error)
    /\ output' = Clamp(RawOutput(error))
    /\ lastError_' = error
    /\ fresh' = FALSE
    /\ zeroRun' = IF error # Fin(0) THEN 0
                  ELSE IF zeroRun < MaxZeroRun THEN zeroRun + 1 ELSE zeroRun
    /\ UNCHANGED <<kp_, ki_, kd_, outputMin_, outputMax_, limitsEnabled_>>

\* a compute() call on the controller
Compute(error) == compute(error) /\ UNCHANGED <<schedVars, estVars, cmdVars, loopVars>>

\* a reset() that restores the constructor's state, limits included
Reset_ClearsLimits ==
    /\ lastError_' = Fin(0)
    /\ integral_' = Fin(0)
    /\ limitsEnabled_' = FALSE
    /\ fresh' = TRUE
    /\ zeroRun' = 0
    /\ UNCHANGED <<kp_, ki_, kd_, outputMin_, outputMax_, output>>
    /\ UNCHANGED <<schedVars, estVars, cmdVars, loopVars>>

\* a reset() that clears lastError_ only
Reset_KeepsIntegral ==
    /\ lastError_' = Fin(0)
    /\ fresh' = TRUE
    /\ zeroRun' = 0
    /\ UNCHANGED <<kp_, ki_, kd_, integral_, outputMin_, outputMax_, limitsEnabled_, output>>
    /\ UNCHANGED <<schedVars, estVars, cmdVars, loopVars>>

\* void PID::reset()
Reset ==
    /\ lastError_' = Fin(0)
    /\ integral_' = Fin(0)
    /\ fresh' = TRUE
    /\ zeroRun' = 0
    /\ UNCHANGED <<kp_, ki_, kd_, outputMin_, outputMax_, limitsEnabled_, output>>
    /\ UNCHANGED <<schedVars, estVars, cmdVars, loopVars>>

\* void PID::setKp(double kp)
setKp(kp) ==
    /\ kp_' = kp
    /\ zeroRun' = 0
    /\ UNCHANGED <<ki_, kd_, lastError_, integral_, outputMin_, outputMax_,
                   limitsEnabled_, output, fresh>>

\* a setKp() call on the controller
SetKp(kp) == setKp(kp) /\ UNCHANGED <<schedVars, estVars, cmdVars, loopVars>>

\* mutant: a setKi() that clears the integral when the integral gain is switched off
setKi_ClearsIntegral(ki) ==
    /\ ki_' = ki
    /\ integral_' = IF ki = Fin(0) THEN Fin(0) ELSE integral_
    /\ zeroRun' = 0
    /\ UNCHANGED <<kp_, kd_, lastError_, outputMin_, outputMax_,
                   limitsEnabled_, output, fresh>>

\* void PID::setKi(double ki)
setKi(ki) ==
    /\ ki_' = ki
    /\ zeroRun' = 0
    /\ UNCHANGED <<kp_, kd_, lastError_, integral_, outputMin_, outputMax_,
                   limitsEnabled_, output, fresh>>

\* a setKi() call on the controller
SetKi(ki) == setKi(ki) /\ UNCHANGED <<schedVars, estVars, cmdVars, loopVars>>

\* void PID::setKd(double kd)
setKd(kd) ==
    /\ kd_' = kd
    /\ zeroRun' = 0
    /\ UNCHANGED <<kp_, ki_, lastError_, integral_, outputMin_, outputMax_,
                   limitsEnabled_, output, fresh>>

\* a setKd() call on the controller
SetKd(kd) == setKd(kd) /\ UNCHANGED <<schedVars, estVars, cmdVars, loopVars>>

\* void PID::setOutputLimits(double min, double max)
SetOutputLimits(min, max) ==
    /\ outputMin_' = min
    /\ outputMax_' = max
    /\ limitsEnabled_' = TRUE
    /\ zeroRun' = 0
    /\ UNCHANGED <<kp_, ki_, kd_, lastError_, integral_, output, fresh>>
    /\ UNCHANGED <<schedVars, estVars, cmdVars, loopVars>>

\* a compute() call
PidCompute == \E error \in ErrorValues : Compute(error)

-----------------------------------------------------------------------------
(* Command protocol *)

(***************************************************************************)
(* A token of a command line is a non-empty sequence of characters, each a *)
(* one-character string; a command line is the sequence of its tokens, as  *)
(* the terminal splits the line at spaces.  A line written to Serial is    *)
(* the sequence of the pieces printed to it: the characters of a token or  *)
(* of a number, and each fixed text as one piece.                          *)
(***************************************************************************)

\* what getNext() returns when the line has no further token
NULL == <<>>

DigitChars == <<"0", "1", "2", "3", "4", "5", "6", "7", "8", "9">>

IsDigit(c) == \E d \in 1..10 : DigitChars[d] = c

DigitValue(c) == (CHOOSE d \in 1..10 : DigitChars[d] = c) - 1

\* strcmp(a, b) == 0
StrEq(a, b) == a = b

\* the value of the digits of str from position i on, up to the first non-digit
RECURSIVE DigitsValue(_, _, _)
DigitsValue(str, i, acc) ==
    IF i > Len(str) \/ ~IsDigit(str[i]) THEN acc
    ELSE DigitsValue(str, i + 1, 10 * acc + DigitValue(str[i]))

\* position of the first character from i on that is not a digit
RECURSIVE DigitsEnd(_, _)
DigitsEnd(str, i) ==
    IF i > Len(str) \/ ~IsDigit(str[i]) THEN i ELSE DigitsEnd(str, i + 1)

\* 1 past an optional sign at the start of str
AfterSign(str) == IF Len(str) >= 1 /\ str[1] \in {"+", "-"} THEN 2 ELSE 1

Negative(str) == Len(str) >= 1 /\ str[1] = "-"

\* atoi(str) with 16-bit int: the digits are accumulated modulo 2^16
Atoi(str) ==
    LET magnitude == DigitsValue(str, AfterSign(str), 0)
    IN  ToInt16(IF Negative(str) THEN -magnitude ELSE magnitude)

\* the first three fraction digits of str from position i on, as thousandths
FractionValue(str, i) ==
    LET digit(k) == IF i + k <= Len(str) /\ i + k < DigitsEnd(str, i)
                    THEN DigitValue(str[i + k]) ELSE 0
    IN  100 * digit(0) + 10 * digit(1) + digit(2)

\* atof(str): nan, inf, or sign, digits and an optional fraction; 0.0 when
\* str does not start with a number (exponents are not among the inputs)
Atof(str) ==
    LET start == AfterSign(str)
        rest == SubSeq(str, start, Len(str))
        stop == DigitsEnd(str, start)
        whole == DigitsValue(str, start, 0)
        fraction == IF stop <= Len(str) /\ str[stop] = "."
                    THEN FractionValue(str, stop + 1) ELSE 0
        magnitude == 1000 * whole + fraction
    IN  IF rest = <<"n", "a", "n">> THEN NaN
        ELSE IF rest = <<"i", "n", "f">>
        THEN (IF Negative(str) THEN DNeg(PInf) ELSE PInf)
        ELSE Fin(IF Negative(str) THEN -magnitude ELSE magnitude)

\* the decimal digits of n >= 0
RECURSIVE NatChars(_)
NatChars(n) ==
    IF n < 10 THEN <<DigitChars[n + 1]>>
    ELSE NatChars(n \div 10) \o <<DigitChars[(n % 10) + 1]>>

\* Serial.print(int16_t)
IntChars(n) == IF n < 0 THEN <<"-">> \o NatChars(-n) ELSE NatChars(n)

\* Serial.print(double, 2)
FloatChars3_TwoDecimals(d) ==
    IF d.c = "nan" THEN <<"n", "a", "n">>
    ELSE IF d.c = "inf" THEN <<"i", "n", "f">>
    ELSE LET magnitude == (IF d.v < 0 THEN -d.v ELSE d.v) + 5
             fraction == magnitude % 1000
         IN  (IF d.v < 0 THEN <<"-">> ELSE <<>>)
             \o NatChars(magnitude \div 1000)
             \o <<".">>
             \o <<DigitChars[(fraction \div 100) + 1],
                  DigitChars[((fraction \div 10) % 10) + 1]>>

\* Serial.print(double, 3), for values below the 4294967040.0 it prints as ovf
FloatChars3(d) ==
    IF d.c = "nan" THEN <<"n", "a", "n">>
    ELSE IF d.c = "inf" THEN <<"i", "n", "f">>
    ELSE LET magnitude == IF d.v < 0 THEN -d.v ELSE d.v
             fraction == magnitude % 1000
         IN  (IF d.v < 0 THEN <<"-">> ELSE <<>>)
             \o NatChars(magnitude \div 1000)
             \o <<".">>
             \o <<DigitChars[(fraction \div 100) + 1],
                  DigitChars[((fraction \div 10) % 10) + 1],
                  DigitChars[(fraction % 10) + 1]>>

\* the fixed texts of the protocol
PidUsage == "Usage: pid <p|i|d> <value> or pid <p|i|d> ?"
InvalidParameter == "Invalid parameter. Use: p, i, or d"
MotorUsage == "Usage: motor <speed|start|stop> [value|?]"
MotorSpeedUsage == "Usage: motor speed <value> or motor speed ?"
LogUsage == "Usage: log <type> <on|off>"
LogTypes == "Types: p, i, d, s, l, o"
InvalidLogType == "Invalid log type. Use: p, i, d, s, l, o"
UnknownCommandText == "Unknown command: "
HelpHint == "Type 'help' for available commands"

\* the k-th getNext() of a handler: the token after the k-th space-separated
\* token of the line, NULL when the line has no such token
Arg(ln, k) == IF Len(ln) >= k + 1 THEN ln[k + 1] ELSE NULL

\* mutant: a cmdPid that compares the whole type token with p, i and d
cmdPid_WholeToken(ln) ==
    LET paramType == Arg(ln, 1)
        valueStr == Arg(ln, 2)
    IN  IF paramType = NULL
        THEN /\ serial' = << <<PidUsage>> >>
             /\ UNCHANGED <<pidVars, baseSpeed, loggingFlags, motorEn>>
        ELSE IF valueStr = NULL
        THEN /\ serial' = << <<PidUsage>> >>
             /\ UNCHANGED <<pidVars, baseSpeed, loggingFlags, motorEn>>
        ELSE IF StrEq(valueStr, <<"?">>)
        THEN \* read mode
             /\ serial' = << <<"pid ">> \o paramType \o <<" ">>
                             \o (CASE paramType = <<"p">> -> FloatChars3(kp_)
                                   [] paramType = <<"i">> -> FloatChars3(ki_)
                                   [] paramType = <<"d">> -> FloatChars3(kd_)
                                   [] OTHER -> <<InvalidParameter>>) >>
             /\ UNCHANGED <<pidVars, baseSpeed, loggingFlags, motorEn>>
        ELSE \* write mode
             LET value == Atof(valueStr)
             IN  /\ CASE paramType = <<"p">> -> setKp(value) /\ serial' = <<>>
                      [] paramType = <<"i">> -> setKi(value) /\ serial' = <<>>
                      [] paramType = <<"d">> -> setKd(value) /\ serial' = <<>>
                      [] OTHER -> /\ serial' = << <<InvalidParameter>> >>
                                  /\ UNCHANGED pidVars
                 /\ UNCHANGED <<baseSpeed, loggingFlags, motorEn>>

\* void CommandHandler::cmdPid(void)
cmdPid(ln) ==
    LET paramType == Arg(ln, 1)
        valueStr == Arg(ln, 2)
    IN  IF paramType = NULL
        THEN /\ serial' = << <<PidUsage>> >>
             /\ UNCHANGED <<pidVars, baseSpeed, loggingFlags, motorEn>>
        ELSE IF valueStr = NULL
        THEN /\ serial' = << <<PidUsage>> >>
             /\ UNCHANGED <<pidVars, baseSpeed, loggingFlags, motorEn>>
        ELSE IF StrEq(valueStr, <<"?">>)
        THEN \* read mode
             /\ serial' = << <<"pid ">> \o paramType \o <<" ">>
                             \o (CASE paramType[1] = "p" -> FloatChars3(kp_)
                                   [] paramType[1] = "i" -> FloatChars3(ki_)
                                   [] paramType[1] = "d" -> FloatChars3(kd_)
                                   [] OTHER -> <<InvalidParameter>>) >>
             /\ UNCHANGED <<pidVars, baseSpeed, loggingFlags, motorEn>>
        ELSE \* write mode
             LET value == Atof(valueStr)
             IN  /\ CASE paramType[1] = "p" -> setKp(value) /\ serial' = <<>>
                      [] paramType[1] = "i" -> setKi(value) /\ serial' = <<>>
                      [] paramType[1] = "d" -> setKd(value) /\ serial' = <<>>
                      [] OTHER -> /\ serial' = << <<InvalidParameter>> >>
                                  /\ UNCHANGED pidVars
                 /\ UNCHANGED <<baseSpeed, loggingFlags, motorEn>>

\* the speed branch of cmdMotor without the test for a missing value
cmdMotorSpeed_NoNullCheck(valueStr) ==
    IF StrEq(valueStr, <<"?">>)
    THEN /\ serial' = << <<"motor speed ">> \o IntChars(baseSpeed) >>
         /\ UNCHANGED <<baseSpeed, motorEn>>
    ELSE /\ baseSpeed' = Atoi(valueStr)
         /\ serial' = <<>>
         /\ UNCHANGED motorEn

\* the speed branch of cmdMotor
cmdMotorSpeed(valueStr) ==
    IF valueStr = NULL
    THEN /\ serial' = << <<MotorSpeedUsage>> >>
         /\ UNCHANGED <<baseSpeed, motorEn>>
    ELSE IF StrEq(valueStr, <<"?">>)
    THEN \* read mode
         /\ serial' = << <<"motor speed ">> \o IntChars(baseSpeed) >>
         /\ UNCHANGED <<baseSpeed, motorEn>>
    ELSE \* write mode: int value = atoi(valueStr); *baseSpeedPtr = value
         /\ baseSpeed' = Atoi(valueStr)
         /\ serial' = <<>>
         /\ UNCHANGED motorEn

\* void CommandHandler::cmdMotor(void)
cmdMotor(ln) ==
    LET subcmd == Arg(ln, 1)
    IN  /\ IF subcmd = NULL
           THEN /\ serial' = << <<MotorUsage>> >>
                /\ UNCHANGED <<baseSpeed, motorEn>>
           ELSE IF StrEq(subcmd, <<"s", "p", "e", "e", "d">>)
           THEN cmdMotorSpeed(Arg(ln, 2))
           ELSE IF StrEq(subcmd, <<"s", "t", "a", "r", "t">>)
           THEN \* Jerry_motorEnable()
                /\ motorEn' = TRUE
                /\ serial' = <<>>
                /\ UNCHANGED baseSpeed
           ELSE IF StrEq(subcmd, <<"s", "t", "o", "p">>)
           THEN \* Jerry_motorDisable()
                /\ motorEn' = FALSE
                /\ serial' = <<>>
                /\ UNCHANGED baseSpeed
           ELSE /\ serial' = << <<MotorUsage>> >>
                /\ UNCHANGED <<baseSpeed, motorEn>>
        /\ UNCHANGED <<pidVars, loggingFlags>>

LogLetters == {"p", "i", "d", "s", "l", "o"}

\* the flag a log type letter names, with l and o exchanged
FlagOf_Swapped(c) ==
    CASE c = "p" -> "logP"
      [] c = "i" -> "logI"
      [] c = "d" -> "logD"
      [] c = "s" -> "logS"
      [] c = "l" -> "logO"
      [] c = "o" -> "logL"

\* the flag a log type letter names
FlagOf(c) ==
    CASE c = "p" -> "logP"
      [] c = "i" -> "logI"
      [] c = "d" -> "logD"
      [] c = "s" -> "logS"
      [] c = "l" -> "logL"
      [] c = "o" -> "logO"

\* bool state = (strcmp(stateStr, "on") == 0)
LogState(stateStr) == StrEq(stateStr, <<"o", "n">>)

\* void CommandHandler::cmdLog(void)
cmdLog(ln) ==
    LET type == Arg(ln, 1)
        stateStr == Arg(ln, 2)
    IN  /\ IF type = NULL
           THEN /\ serial' = << <<LogUsage>>, <<LogTypes>> >>
                /\ UNCHANGED loggingFlags
           ELSE IF stateStr = NULL
           THEN /\ serial' = << <<LogUsage>> >>
                /\ UNCHANGED loggingFlags
           ELSE IF type[1] \in LogLetters
           THEN /\ loggingFlags' =
                       [loggingFlags EXCEPT ![FlagOf(type[1])] = LogState(stateStr)]
                /\ serial' = <<>>
           ELSE /\ serial' = << <<InvalidLogType>> >>
                /\ UNCHANGED loggingFlags
        /\ UNCHANGED <<pidVars, baseSpeed, motorEn>>

\* the lines cmdHelp prints
HelpText ==
    << <<"Available commands:">>,
       <<"  help              - Print this help">>,
       <<"  bootloader        - Jump to bootloader">>,
       <<"  pid p <value>     - Set PID P coefficient">>,
       <<"  pid p ?           - Read PID P coefficient">>,
       <<"  pid i <value>     - Set PID I coefficient">>,
       <<"  pid i ?           - Read PID I coefficient">>,
       <<"  pid d <value>     - Set PID D coefficient">>,
       <<"  pid d ?           - Read PID D coefficient">>,
       <<"  motor speed <val> - Set motor speed">>,
       <<"  motor speed ?     - Read motor speed">>,
       <<"  motor start       - Start motor">>,
       <<"  motor stop        - Stop motor">>,
       <<"  log <type> <on|off> - Enable/disable logging">>,
       <<"    Types: p, i, d, s, l, o">> >>

\* void CommandHandler::cmdHelp(void)
cmdHelp ==
    /\ serial' = HelpText
    /\ UNCHANGED <<pidVars, baseSpeed, loggingFlags, motorEn>>

\* an unknown-command handler that leaves out the help hint
unknownCommand_NoHint(command) ==
    /\ serial' = << <<UnknownCommandText>> \o command >>
    /\ UNCHANGED <<pidVars, baseSpeed, loggingFlags, motorEn>>

\* void CommandHandler::unknownCommand(const char *command)
unknownCommand(command) ==
    /\ serial' = << <<UnknownCommandText>> \o command, <<HelpHint>> >>
    /\ UNCHANGED <<pidVars, baseSpeed, loggingFlags, motorEn>>

\* the tokens of the protocol
TokQuery == <<"?">>
TokHelp == <<"h", "e", "l", "p">>
TokBootloader == <<"b", "o", "o", "t", "l", "o", "a", "d", "e", "r">>
TokPid == <<"p", "i", "d">>
TokMotor == <<"m", "o", "t", "o", "r">>
TokLog == <<"l", "o", "g">>
TokSpeed == <<"s", "p", "e", "e", "d">>
TokStart == <<"s", "t", "a", "r", "t">>
TokStop == <<"s", "t", "o", "p">>
TokOn == <<"o", "n">>
TokOff == <<"o", "f", "f">>

\* the commands CommandHandler::init registers
Registered == {TokQuery, TokHelp, TokBootloader, TokPid, TokMotor, TokLog}

\* term.readSerial() on a complete line: the first token selects the handler.
\* The bootloader line leaves the firmware and is not among the inputs.
ReadSerial(ln) ==
    /\ ln # <<>>
    /\ ln[1] # TokBootloader
    /\ cmdline' = ln
    /\ LET command == ln[1]
       IN  IF command \in {TokQuery, TokHelp} THEN cmdHelp
           ELSE IF command = TokPid THEN cmdPid(ln)
           ELSE IF command = TokMotor THEN cmdMotor(ln)
           ELSE IF command = TokLog THEN cmdLog(ln)
           ELSE unknownCommand(command)
    /\ UNCHANGED <<schedVars, estVars, loopVars>>

\* second tokens of pid lines: the three gain letters, a letter that names no
\* gain, and a longer token that starts with a gain letter
GainTokens == {<<"p">>, <<"i">>, <<"d">>, <<"x">>, <<"p", "x">>}

\* third tokens of pid lines
PidValueTokens == {TokQuery, <<"2", ".", "5">>}

\* third tokens of motor speed lines
SpeedValueTokens == {TokQuery, <<"5">>, <<"-", "7">>,
                     <<"9", "9", "9", "9", "9", "9", "9">>}

\* a token past the end of a command's grammar
ExtraTokens == {<<"2">>, <<"n", "o", "w">>}

PidLines ==
    {<<TokPid>>}
    \cup {<<TokPid, g>> : g \in GainTokens}
    \cup {<<TokPid, g, v>> : g \in GainTokens, v \in PidValueTokens}
    \cup {<<TokPid, <<"p">>, v, x>> : v \in PidValueTokens, x \in ExtraTokens}

MotorLines ==
    {<<TokMotor>>}
    \cup {<<TokMotor, sub>> : sub \in {TokSpeed, TokStart, TokStop, <<"g", "o">>}}
    \cup {<<TokMotor, TokSpeed, v>> : v \in SpeedValueTokens}
    \cup {<<TokMotor, TokSpeed, <<"5">>, x>> : x \in ExtraTokens}
    \cup {<<TokMotor, sub, x>> : sub \in {TokStart, TokStop}, x \in ExtraTokens}

\* a longer log type token that starts with a type letter
TokSensor == <<"s", "e", "n", "s", "o", "r">>

\* second and third tokens of log lines
LogTypeTokens == {<<c>> : c \in LogLetters} \cup {<<"x">>, TokSensor}
LogStateTokens == {TokOn, TokOff, <<"y", "e", "s">>}

LogLines ==
    {<<TokLog>>}
    \cup {<<TokLog, t>> : t \in LogTypeTokens}
    \cup {<<TokLog, t, st>> : t \in LogTypeTokens, st \in LogStateTokens}
    \cup {<<TokLog, t, TokOn, x>> : t \in LogTypeTokens, x \in ExtraTokens}

\* first tokens that select the help or no handler
OtherLines ==
    {<<TokHelp>>, <<TokQuery>>, <<<<"f", "o", "o">>>>, <<<<"p", "i", "d", "x">>, <<"1">>>>}

\* the lines of the whole protocol; of the log family those about the s flag
CmdLines ==
    PidLines \cup MotorLines \cup OtherLines
    \cup {ln \in LogLines : Len(ln) = 1 \/ ln[2] \in {<<"s">>, <<"x">>, TokSensor}}

\* int16_t baseSpeed = 20; the logging flags' defaults; setup() disables the motors
Cmd_Init ==
    /\ baseSpeed = 20
    /\ loggingFlags = [logP |-> FALSE, logI |-> FALSE, logD |-> FALSE,
                       logS |-> TRUE, logL |-> TRUE, logO |-> TRUE]
    /\ motorEn = FALSE
    /\ serial = <<>>
    /\ cmdline = <<>>

-----------------------------------------------------------------------------
(* Main loop *)

(***************************************************************************)
(* loop() polls the IR receiver, reads the serial terminal, runs the       *)
(* control task when its scheduler says it is due and then the 100 ms      *)
(* task.  Whether a task is due is an input here (SchedSpec has the        *)
(* scheduler), so every control period is covered.  The control task is    *)
(* two steps, ControlTask up to the motor output and Telemetry for the     *)
(* logging, with the clock free to advance in between; the IR, serial and  *)
(* 100 ms steps are taken outside the control task, where loop() has them. *)
(* In LoopSpec and ThrottleSpec the clock has LoopClockBits bits.          *)
(***************************************************************************)

LoopClockBits == 7
LoopClockMod == 2 ^ LoopClockBits

\* a pause of loop() longer than the telemetry interval
LongPause == 112

\* if (currentTime - lastPidLog > 100)
PID_LOG_INTERVAL == 100

\* pidController.setOutputLimits(-255, 255)
OUTPUT_LIMIT == 255

\* unsigned long subtraction and the clock's advance
LoopSub(a, b) == (a - b + LoopClockMod) % LoopClockMod
LoopAdd(a, b) == (a + b) % LoopClockMod

\* int16_t motorSpeed = 0; static unsigned long lastPidLog = 0; nothing
\* written to the motors or to Serial yet
Loop_Init ==
    /\ inCycle = FALSE
    /\ motorSpeed = 0
    /\ motorPwm = <<0, 0>>
    /\ lastPidLog = 0
    /\ telemetry = <<>>
    /\ sinceEmit = LoopClockMod

\* the controller after setup(): PID pidController(1.0, 0.0, 5.0) with
\* setOutputLimits(-255, 255)
setup ==
    /\ kp_ = Fin(1000)
    /\ ki_ = Fin(0)
    /\ kd_ = Fin(5000)
    /\ lastError_ = Fin(0)
    /\ integral_ = Fin(0)
    /\ outputMin_ = Whole(-OUTPUT_LIMIT)
    /\ outputMax_ = Whole(OUTPUT_LIMIT)
    /\ limitsEnabled_ = TRUE
    /\ output = Fin(0)
    /\ fresh = TRUE
    /\ zeroRun = 0

\* the estimator call of the build: adc_line, last_line_pos and line
lineRead(frame) ==
    /\ adc_line' = frame
    /\ LET r == EstimateLine(frame, last_line_pos, CurrentThreshold)
       IN  last_line_pos' = r.last /\ line' = r.ret
    /\ UNCHANGED <<build, edgeDiffThreshold>>

\* (int16_t) of a double: the integer part when it fits; otherwise the
\* conversion is undefined and the result is any of these
Int16Cast(d) ==
    IF d.c = "fin" /\ TruncDiv(d.v, 1000) \in -32768..32767
    THEN {TruncDiv(d.v, 1000)}
    ELSE {-32768, 0, 32767}

\* maxSpeed: Jerry_setMaxSpeed(100) in main.cpp, the default 255 of Motor.cpp
MaxSpeed == IF build = "jerry" THEN 100 ELSE 255

\* constrain(x, -maxSpeed, maxSpeed)
Constrain(x) == IF x < -MaxSpeed THEN -MaxSpeed ELSE IF x > MaxSpeed THEN MaxSpeed ELSE x

\* Motor_setSpeed / Jerry_setSpeed: the signed duty written per side
Motor_setSpeed(left, right) == <<Constrain(left), Constrain(right)>>

\* a + b in int, 16 bits wide on the target.  A sum outside the range of int
\* is undefined: the build yields the value wrapped to 16 bits or, where the
\* sum is kept in wider registers up to the constrain(), the sum itself.
IntSum(a, b) ==
    IF a + b \in -32768..32767 THEN {a + b} ELSE {ToInt16(a + b), a + b}

\* the first half of the control task: read the line, compute, set the motors
ControlTask(frame) ==
    /\ ~inCycle
    /\ lineRead(frame)
    /\ compute(Whole(line'))
    /\ \E speed \in Int16Cast(output') :
          /\ motorSpeed' = speed
          /\ \E left \in IntSum(baseSpeed, -speed), right \in IntSum(baseSpeed, speed) :
                motorPwm' = Motor_setSpeed(left, right)
    /\ inCycle' = TRUE
    /\ UNCHANGED <<lastPidLog, telemetry, sinceEmit>>
    /\ UNCHANGED <<schedVars, cmdVars>>

RECURSIVE SensorFields(_, _)
\* ptr += sprintf(ptr, ",%u", adc_line[i]) for the first n channels
SensorFields(array, n) ==
    IF n = 0 THEN <<>>
    ELSE SensorFields(array, n - 1) \o <<",">> \o NatChars(array[n - 1])

\* Sensor_getSensorValues / Jerry_getSensorValues
Sensor_getSensorValues(array) == <<"S">> \o SensorFields(array, ANALOG_PIN_COUNT)

\* void Logger_LogSensor(void)
Logger_LogSensor ==
    IF loggingFlags.logS THEN << Sensor_getSensorValues(adc_line) >> ELSE <<>>

\* a Logger_LogLine that is gated by the sensor flag
Logger_LogLine_SensorFlag(l) ==
    IF loggingFlags.logS THEN << <<"L,">> \o IntChars(l) >> ELSE <<>>

\* void Logger_LogLine(int16_t line)
Logger_LogLine(l) ==
    IF loggingFlags.logL THEN << <<"L,">> \o IntChars(l) >> ELSE <<>>

\* void Logger_LogOutput(int16_t output)
Logger_LogOutput(o) ==
    IF loggingFlags.logO THEN << <<"O,">> \o IntChars(o) >> ELSE <<>>

\* a throttle that compares the clock with the interval, not with lastPidLog
PidLogDue_SinceBoot(currentTime) == currentTime > PID_LOG_INTERVAL

\* currentTime - lastPidLog > 100
PidLogDue(currentTime) == LoopSub(currentTime, lastPidLog) > PID_LOG_INTERVAL

\* the lines Logger_LogPID prints when the interval has passed
Logger_LogPID(kp, ki, kd) ==
    (IF loggingFlags.logP THEN << <<"pid p ">> \o FloatChars3(kp) >> ELSE <<>>)
    \o (IF loggingFlags.logI THEN << <<"pid i ">> \o FloatChars3(ki) >> ELSE <<>>)
    \o (IF loggingFlags.logD THEN << <<"pid d ">> \o FloatChars3(kd) >> ELSE <<>>)

\* ms added to an age that is capped at LoopClockMod
Elapse(age, d) == IF age + d > LoopClockMod THEN LoopClockMod ELSE age + d

\* the second half of the control task: Logger_LogSensor, Logger_LogLine,
\* Logger_LogOutput and Logger_LogPID.  Logger_LogPID reads the clock once;
\* main.cpp reads it a second time for lastPidLog, after the prints.
Telemetry ==
    /\ inCycle
    /\ LET due == PidLogDue(millis)
           pid == IF due THEN Logger_LogPID(kp_, ki_, kd_) ELSE <<>>
       IN  /\ telemetry' = Logger_LogSensor \o Logger_LogLine(line)
                           \o Logger_LogOutput(motorSpeed) \o pid
           /\ \E late \in (IF build = "jerry" /\ due THEN {0, 1} ELSE {0}) :
                 /\ millis' = LoopAdd(millis, late)
                 /\ lastPidLog' = IF due THEN millis' ELSE lastPidLog
                 /\ sinceEmit' = IF pid # <<>> THEN late ELSE Elapse(sinceEmit, late)
    /\ inCycle' = FALSE
    /\ UNCHANGED <<motorSpeed, motorPwm>>
    /\ UNCHANGED <<intervalMs, lastExecutionTime, wrapped, calls, retval,
                   trueCount, sinceFire, snapAge>>
    /\ UNCHANGED <<estVars, pidVars, cmdVars>>

HexDigits == <<"0", "1", "2", "3", "4", "5", "6", "7", "8", "9",
               "A", "B", "C", "D", "E", "F">>

\* Serial.println(command, HEX) of a uint8_t
HexChars(n) ==
    IF n < 16 THEN <<HexDigits[n + 1]>>
    ELSE <<HexDigits[(n \div 16) + 1], HexDigits[(n % 16) + 1]>>

\* case 0x52: stop
IR_STOP == 82

\* case 0x5E: reserved
IR_RESERVED == 94

\* the speed cases 0x19, 0x16, 0x0D, 0x0C, 0x18 and the baseSpeed each sets
IrSpeeds == [command \in {25, 22, 13, 12, 24} |->
                CASE command = 25 -> 0
                  [] command = 22 -> 25
                  [] command = 13 -> 50
                  [] command = 12 -> 75
                  [] command = 24 -> 100]

UnknownIrText == "Unknown command received."

\* IR_Update / IR_Task when a non-repeat command has been decoded: print it,
\* then handleIRCommand(command)
IR_Update(command) ==
    /\ ~inCycle
    /\ IF command = IR_STOP
       THEN motorEn' = FALSE /\ UNCHANGED baseSpeed
       ELSE IF command \in DOMAIN IrSpeeds
       THEN motorEn' = TRUE /\ baseSpeed' = IrSpeeds[command]
       ELSE UNCHANGED <<motorEn, baseSpeed>>
    /\ serial' = << HexChars(command) >>
                 \o (IF command \in DOMAIN IrSpeeds \cup {IR_STOP, IR_RESERVED}
                     THEN <<>> ELSE << <<UnknownIrText>> >>)
    /\ UNCHANGED <<loggingFlags, cmdline>>
    /\ UNCHANGED <<schedVars, estVars, pidVars, loopVars>>

\* a button handler whose button 2 also stops the sensor log
Button_Update_Mutes(button) ==
    /\ ~inCycle
    /\ CASE button = 1 -> serial' = << <<"Button 1 pressed">> >> /\ motorEn' = TRUE
         [] button = 2 -> serial' = << <<"Button 2 pressed">> >> /\ motorEn' = FALSE
         [] OTHER -> UNCHANGED <<serial, motorEn>>
    /\ loggingFlags' = IF button = 2 THEN [loggingFlags EXCEPT !.logS = FALSE]
                       ELSE loggingFlags
    /\ UNCHANGED <<baseSpeed, cmdline>>
    /\ UNCHANGED <<schedVars, estVars, pidVars, loopVars>>

\* the 100 ms task when button 1 or button 2 is found pressed:
\* handleButtonPress(button)
Button_Update(button) ==
    /\ ~inCycle
    /\ CASE button = 1 -> serial' = << <<"Button 1 pressed">> >> /\ motorEn' = TRUE
         [] button = 2 -> serial' = << <<"Button 2 pressed">> >> /\ motorEn' = FALSE
         [] OTHER -> UNCHANGED <<serial, motorEn>>
    /\ UNCHANGED <<baseSpeed, loggingFlags, cmdline>>
    /\ UNCHANGED <<schedVars, estVars, pidVars, loopVars>>

\* a readSerial() that an interrupt could run at any point of loop()
LoopReadSerial_Anywhere(ln) == ReadSerial(ln)

\* term.readSerial() in loop(), once per buffered line
LoopReadSerial(ln) == ~inCycle /\ ReadSerial(ln)

\* millis() advances by d ms, wrapping at the loop clock's width
LoopTick(d) ==
    /\ millis' = LoopAdd(millis, d)
    /\ sinceEmit' = Elapse(sinceEmit, d)
    /\ UNCHANGED <<inCycle, motorSpeed, motorPwm, lastPidLog, telemetry>>
    /\ UNCHANGED <<intervalMs, lastExecutionTime, wrapped, calls, retval,
                   trueCount, sinceFire, snapAge>>
    /\ UNCHANGED <<estVars, pidVars, cmdVars>>

\* a frame with nothing under the sensor and one with the line left of centre
BlankFrame == [i \in Channels |-> 0]
LineFrame == [i \in Channels |-> IF i = 3 THEN 300 ELSE 0]
LoopFrames == {BlankFrame, LineFrame}

\* the command lines, IR commands and buttons of LoopSpec
LoopLines == {<<TokPid, <<"p">>, <<"2", ".", "5">>>>, <<TokLog, <<"p">>, TokOn>>,
              <<TokMotor, TokStart>>}
LoopIrCodes == {IR_STOP, 22}
LoopButtons == {1, 2}

\* a frame with the line right of centre
RightFrame == [i \in Channels |-> IF i = 5 THEN 300 ELSE 0]

\* the frames, command lines and IR commands of DriveSpec: the base speed is
\* set to a small value and to the two ends of int16_t
DriveFrames == {BlankFrame, LineFrame, RightFrame}
DriveLines == {<<TokMotor, TokSpeed, <<"5">>>>,
               <<TokMotor, TokSpeed, <<"3", "2", "7", "6", "7">>>>,
               <<TokMotor, TokSpeed, <<"-", "3", "2", "7", "6", "8">>>>}
DriveIrCodes == {IR_STOP, 24}

\* the command lines of TelemetrySpec
TelemetryLines == {<<TokLog, <<"s">>, TokOff>>, <<TokLog, <<"l">>, TokOff>>,
                   <<TokLog, <<"o">>, TokOff>>}

\* the command lines and clock steps of ThrottleSpec
ThrottleLines == {<<TokLog, <<"p">>, TokOn>>}
ThrottleSteps == {25, 26}


-----------------------------------------------------------------------------
(* Specifications *)

SchedNext ==
    \/ ShouldExecuteTask
    \/ \E d \in 1..MaxStep : Tick(d)

SchedInit ==
    /\ \E interval \in 1..MaxPeriod : BigLoop(interval)
    /\ Est_Init("sensor")
    /\ PID_Init
    /\ Cmd_Init
    /\ Loop_Init

SchedSpec == SchedInit /\ [][SchedNext]_vars

EstNext ==
    \/ \E frame \in Frames : Sensor_readBlack(frame)
    \/ \E frame \in Frames : Jerry_lineRead(frame)
    \/ \E threshold \in ThresholdValues : Sensor_setEdgeDiffThreshold(threshold)

EstInit ==
    /\ BigLoop(1)
    /\ \E b \in {"sensor", "jerry"} : Est_Init(b)
    /\ PID_Init
    /\ Cmd_Init
    /\ Loop_Init

EstSpec == EstInit /\ [][EstNext]_vars

PidNext ==
    \/ \E error \in ErrorValues : Compute(error)
    \/ Reset
    \/ \E kp \in GainValues : SetKp(kp)
    \/ \E ki \in GainValues : SetKi(ki)
    \/ \E kd \in GainValues : SetKd(kd)
    \/ \E x \in LimitValues : SetOutputLimits(DNeg(x), x)

PidInit ==
    /\ BigLoop(1)
    /\ Est_Init("sensor")
    /\ PID_Init
    /\ Cmd_Init
    /\ Loop_Init

PidSpec == PidInit /\ [][PidNext]_vars

CmdNext == \E ln \in CmdLines : ReadSerial(ln)

CmdInit ==
    /\ BigLoop(1)
    /\ Est_Init("sensor")
    /\ PID_Init
    /\ Cmd_Init
    /\ Loop_Init

CmdSpec == CmdInit /\ [][CmdNext]_vars

LogNext == \E ln \in LogLines : ReadSerial(ln)

LogInit ==
    /\ BigLoop(1)
    /\ Est_Init("sensor")
    /\ PID_Init
    /\ Cmd_Init
    /\ Loop_Init

LogSpec == LogInit /\ [][LogNext]_vars

LoopNext ==
    \/ \E command \in LoopIrCodes : IR_Update(command)
    \/ \E ln \in LoopLines : LoopReadSerial(ln)
    \/ \E frame \in LoopFrames : ControlTask(frame)
    \/ Telemetry
    \/ \E button \in LoopButtons : Button_Update(button)
    \/ millis + LongPause < LoopClockMod /\ LoopTick(LongPause)

LoopInit ==
    /\ BigLoop(1)
    /\ \E b \in {"sensor", "jerry"} : Est_Init(b)
    /\ setup
    /\ Cmd_Init
    /\ Loop_Init

LoopSpec == LoopInit /\ [][LoopNext]_vars

TelemetryNext ==
    \/ \E ln \in TelemetryLines : LoopReadSerial(ln)
    \/ \E frame \in LoopFrames : ControlTask(frame)
    \/ Telemetry
    \/ millis + LongPause < LoopClockMod /\ LoopTick(LongPause)

TelemetryInit ==
    /\ BigLoop(1)
    /\ \E b \in {"sensor", "jerry"} : Est_Init(b)
    /\ setup
    /\ Cmd_Init
    /\ Loop_Init

TelemetrySpec == TelemetryInit /\ [][TelemetryNext]_vars

ThrottleNext ==
    \/ \E ln \in ThrottleLines : LoopReadSerial(ln)
    \/ ControlTask(BlankFrame)
    \/ Telemetry
    \/ \E d \in ThrottleSteps : LoopTick(d)

\* the build of main.cpp: its second clock read for lastPidLog may equal the
\* first, which is the single read of Logger_LogPID
ThrottleInit ==
    /\ BigLoop(1)
    /\ Est_Init("jerry")
    /\ setup
    /\ Cmd_Init
    /\ Loop_Init

ThrottleSpec == ThrottleInit /\ [][ThrottleNext]_vars

DriveNext ==
    \/ \E command \in DriveIrCodes : IR_Update(command)
    \/ \E ln \in DriveLines : LoopReadSerial(ln)
    \/ \E frame \in DriveFrames : ControlTask(frame)
    \/ Telemetry

DriveInit ==
    /\ BigLoop(1)
    /\ \E b \in {"sensor", "jerry"} : Est_Init(b)
    /\ setup
    /\ Cmd_Init
    /\ Loop_Init

DriveSpec == DriveInit /\ [][DriveNext]_vars

-----------------------------------------------------------------------------
(* Scheduler claims *)

\* C1: with a clock that started at 0 and has not wrapped, the number of
\* shouldExecuteTask() calls that returned true is at most floor(now / P):
\* trueCount * P <= now, at every call and ever after.
C1_AtMostOncePerPeriod ==
    ~wrapped => trueCount * intervalMs <= millis

\* the bound of C1 is met with equality after the task has been admitted twice
C1_Witness ==
    /\ ~wrapped
    /\ trueCount >= 2
    /\ retval
    /\ sinceFire = 0
    /\ trueCount * intervalMs = millis

\* C2: a call that follows a true-returning call with no time elapsed in
\* between returns false.
C2_NoRepeatAtSameInstant ==
    [][(ShouldExecuteTask /\ retval /\ sinceFire = 0) => ~retval']_vars

\* a call returned true and a later call at the same clock value returned false
C2_Witness ==
    /\ calls >= 2
    /\ sinceFire = 0
    /\ ~retval

\* C3: a call made when now - lastExecutionTime >= 2 * P returns true and sets
\* lastExecutionTime to now, and no call made less than P ms after it
\* returns true.
C3_NoBurstAfterStall ==
    [][ShouldExecuteTask =>
         /\ Stalled => (retval' /\ lastExecutionTime' = millis)
         /\ (snapAge >= 0 /\ snapAge < intervalMs) => ~retval']_vars

\* after a stalled call, a call made less than a period later returned false
C3_Witness ==
    /\ snapAge >= 1
    /\ snapAge < intervalMs
    /\ sinceFire = snapAge
    /\ ~retval
    /\ calls >= 2

\* C4 as claimed: the first call after construction returns true whatever the
\* clock value.
C4_FirstCallAlwaysTrue ==
    calls = 1 => retval

\* C4 amended: the first call after construction returns true exactly when
\* the clock value at that call is at least the period.
C4_FirstCallTrueIffPeriodElapsed ==
    [][(ShouldExecuteTask /\ calls = 0) => (retval' <=> millis >= intervalMs)]_vars

\* the first call was made before one period had elapsed and returned false
C4_Witness ==
    /\ calls = 1
    /\ ~wrapped
    /\ ~retval
    /\ millis < intervalMs

\* how late the latest admitted call was: the clock value at that call minus
\* lastExecutionTime (exact while sinceFire <= intervalMs and no call has
\* changed lastExecutionTime since)
FireLateness == USub(USub(millis, sinceFire), lastExecutionTime)

\* C32: a call made with P <= now - lastExecutionTime < 2P returns true and
\* advances lastExecutionTime by exactly P; a call that returns false leaves
\* it unchanged; while no call has been two periods late and the clock has
\* not wrapped, lastExecutionTime is the number of admitted calls times P.
C32_DriftCorrection ==
    /\ [][ShouldExecuteTask =>
            /\ (/\ USub(millis, lastExecutionTime) >= intervalMs
                /\ USub(millis, lastExecutionTime) < 2 * intervalMs) =>
                  (retval' /\ lastExecutionTime' = UAdd(lastExecutionTime, intervalMs))
            /\ ~retval' => lastExecutionTime' = lastExecutionTime]_vars
    /\ []((snapAge = -1 /\ ~wrapped) => lastExecutionTime = trueCount * intervalMs)

\* two calls have been admitted, the second late by less than a period, and
\* lastExecutionTime is 2P, behind the clock
C32_Witness ==
    /\ ~wrapped /\ snapAge = -1
    /\ retval /\ sinceFire = 0
    /\ trueCount = 2
    /\ lastExecutionTime = 2 * intervalMs
    /\ millis > lastExecutionTime

\* C33 as claimed: two calls that both return true are at least P ms apart.
C33_FiringsOnePeriodApart ==
    [][(ShouldExecuteTask /\ retval' /\ sinceFire >= 0) => sinceFire >= intervalMs]_vars

\* C33 amended: a call that returns true less than P ms after the previous
\* true return follows one that was late by d ms, 0 < d < P, and comes at
\* least P - d ms (so at least 1 ms) after it.
C33_FiringsApartButForLateness ==
    [][(ShouldExecuteTask /\ retval' /\ sinceFire >= 0 /\ sinceFire < intervalMs) =>
          /\ FireLateness > 0 /\ FireLateness < intervalMs
          /\ sinceFire + FireLateness >= intervalMs
          /\ sinceFire >= 1]_vars

\* a call has been admitted less than a period after the previous admitted
\* call: lastExecutionTime has advanced by P twice within that time
C33_Witness ==
    /\ ~wrapped /\ snapAge = -1
    /\ retval /\ sinceFire = 0
    /\ trueCount >= 2
    /\ millis < (trueCount + 1) * intervalMs - 1
    /\ millis - lastExecutionTime < intervalMs
    /\ lastExecutionTime = trueCount * intervalMs
    /\ millis = lastExecutionTime

\* C34: right after every call, true or false, now - lastExecutionTime < P in
\* unsigned arithmetic, and lastExecutionTime <= now while the clock, started
\* at 0, has not wrapped.
C34_CaughtUpAfterCall ==
    [][ShouldExecuteTask =>
          /\ USub(millis', lastExecutionTime') < intervalMs
          /\ ~wrapped => lastExecutionTime' <= millis']_vars

\* a call made two periods late or more has left lastExecutionTime at the
\* clock value
C34_Witness ==
    /\ ~wrapped
    /\ calls >= 2
    /\ retval /\ snapAge = 0
    /\ trueCount >= 2
    /\ lastExecutionTime = millis

\* C35: a call made exactly P ms after the latest admitted call returns true
\* wherever the clock stands, also when it has wrapped in between, and a
\* call made less than P ms after it, across the wrap or not, returns true
\* only to make up for that call's lateness.
C35_WrapSafe ==
    [][ShouldExecuteTask =>
          /\ sinceFire = intervalMs => retval'
          /\ (sinceFire >= 0 /\ sinceFire < intervalMs
                /\ sinceFire + FireLateness < intervalMs) => ~retval']_vars

\* a call made after the clock wrapped has been admitted and has advanced
\* lastExecutionTime by one period to a value still before the wrap
C35_Witness ==
    /\ wrapped
    /\ retval /\ sinceFire = 0
    /\ lastExecutionTime > millis
    /\ USub(millis, lastExecutionTime) < intervalMs

-----------------------------------------------------------------------------
(* Estimator claims *)

\* channel edge_idx holds the frame maximum and exceeds its inward neighbour
\* by at least the build's edge-difference threshold
EdgeShaped(array, edge_idx) ==
    /\ array[edge_idx] = FindMax(array)
    /\ array[edge_idx] - array[IF edge_idx = 0 THEN 1 ELSE edge_idx - 1] >= CurrentThreshold

\* channel i equals channel 7 - i for all i
MirrorSymmetric(array) ==
    \A i \in Channels : array[i] = array[ANALOG_PIN_COUNT - 1 - i]

\* C5: on a frame with max - min < 200 the estimator returns the value the
\* previous call returned (0 if there was none) and leaves last_line_pos
\* unchanged, so the output stays put over a run of low-contrast frames.
C5_LowContrastHolds ==
    [][(EstRead /\ LowContrast(adc_line')) =>
          (line' = line /\ last_line_pos' = last_line_pos)]_vars

\* a low-contrast frame has been read while a non-zero position was held
C5_Witness ==
    /\ LowContrast(adc_line)
    /\ Contrast(adc_line) > 0
    /\ line # 0
    /\ line = last_line_pos

\* C6 as claimed: every frame whose channel 0 holds the maximum and exceeds
\* channel 1 by at least the threshold yields -127.
C6_LeftEdgeAnyContrast ==
    [][(EstRead /\ EdgeShaped(adc_line', 0)) => line' = -127]_vars

\* C6 amended: every frame that passes the contrast gate (max - min >= 200)
\* and whose channel 0 holds the maximum and exceeds channel 1 by at least
\* the threshold yields -127 and sets last_line_pos to -127.
C6_LeftEdge ==
    [][(EstRead /\ ~LowContrast(adc_line') /\ EdgeShaped(adc_line', 0)) =>
          (line' = -127 /\ last_line_pos' = -127)]_vars

\* a left-edge frame with sufficient contrast has been read and gave -127
C6_Witness ==
    /\ ~LowContrast(adc_line)
    /\ EdgeShaped(adc_line, 0)
    /\ adc_line[0] - adc_line[1] = CurrentThreshold
    /\ line = -127

\* C7 as claimed: every frame whose channel 7 holds the maximum and exceeds
\* channel 6 by at least the threshold yields +127.
C7_RightEdgeAnyFrame ==
    [][(EstRead /\ EdgeShaped(adc_line', ANALOG_PIN_COUNT - 1)) => line' = 127]_vars

\* C7 amended: every frame that passes the contrast gate, whose channel 7
\* holds the maximum and exceeds channel 6 by at least the threshold, and
\* whose channel 0 is not a left edge in the same sense, yields +127 and
\* sets last_line_pos to +127.
C7_RightEdge ==
    [][(EstRead /\ ~LowContrast(adc_line')
           /\ EdgeShaped(adc_line', ANALOG_PIN_COUNT - 1)
           /\ ~EdgeShaped(adc_line', 0)) =>
          (line' = 127 /\ last_line_pos' = 127)]_vars

\* a right-edge frame with sufficient contrast has been read and gave +127
C7_Witness ==
    /\ ~LowContrast(adc_line)
    /\ EdgeShaped(adc_line, ANALOG_PIN_COUNT - 1)
    /\ ~EdgeShaped(adc_line, 0)
    /\ line = 127

\* C8 as claimed: every mirror-symmetric frame with contrast >= 200 and
\* normalized sum >= 100 yields 0.
C8_SymmetricAnyFrame ==
    [][(EstRead /\ MirrorSymmetric(adc_line') /\ ~LowContrast(adc_line')
           /\ ~LowSignal(adc_line')) => line' = 0]_vars

\* C8 amended: every mirror-symmetric frame with contrast >= 200 and
\* normalized sum >= 100 whose outermost channels are not edges (channel 0,
\* equal to channel 7, is not the maximum or exceeds channel 1 by less than
\* the threshold) yields 0 and sets last_line_pos to 0.
C8_SymmetricCentre ==
    [][(EstRead /\ MirrorSymmetric(adc_line') /\ ~LowContrast(adc_line')
           /\ ~LowSignal(adc_line') /\ ~EdgeShaped(adc_line', 0)) =>
          (line' = 0 /\ last_line_pos' = 0)]_vars

\* a symmetric frame with the line off the outermost channels gave 0
C8_Witness ==
    /\ MirrorSymmetric(adc_line)
    /\ ~LowContrast(adc_line)
    /\ ~LowSignal(adc_line)
    /\ ~EdgeShaped(adc_line, 0)
    /\ adc_line[1] > adc_line[0]
    /\ line = 0
    /\ last_line_pos = 0

\* C9: every value the estimator returns and every value of last_line_pos
\* lies in [-127, 127].
C9_PositionInRange ==
    /\ line \in -127..127
    /\ last_line_pos \in -127..127

\* both extremes and a centroid just inside the range are reached
C9_Witness ==
    /\ ~LowContrast(adc_line)
    /\ ~EdgeShaped(adc_line, 0)
    /\ ~EdgeShaped(adc_line, ANALOG_PIN_COUNT - 1)
    /\ line = last_line_pos
    /\ line > 100
    /\ line < 127

-----------------------------------------------------------------------------
(* PID claims *)

\* C10: once setOutputLimits(-X, X) has been called with X >= 0, every value
\* compute() returns lies in [-X, X], whatever errors, gain changes and
\* reset() calls come in between.  A NaN gain makes the sum NaN, both clamp
\* comparisons are then false and compute() returns NaN.
C10_OutputWithinLimits ==
    [][(PidCompute /\ limitsEnabled_)
          => (DLe(outputMin_, output') /\ DLe(output', outputMax_))]_vars

\* the three gains are finite numbers
FiniteGains == kp_.c = "fin" /\ ki_.c = "fin" /\ kd_.c = "fin"

\* integral_ after compute(error) on a controller whose lastError_ and integral_
\* are 0.0, written from the gains, the limits and error alone
C11_FreshIntegral(error) ==
    LET pd == DAdd(DMul(kp_, error), DMul(error, kd_))
    IN  IF DNe(ki_, Fin(0))
        THEN IF /\ limitsEnabled_
                /\ \/ DGe(pd, outputMax_) /\ DGt(error, Fin(0))
                   \/ DLe(pd, outputMin_) /\ DLt(error, Fin(0))
             THEN Fin(0)
             ELSE error
        ELSE Fin(0)

\* what compute(error) returns on such a controller
C11_FreshOutput(error) ==
    LET raw == DAdd(DAdd(DMul(kp_, error), DMul(ki_, C11_FreshIntegral(error))),
                    DMul(error, kd_))
    IN  IF ~limitsEnabled_ THEN raw
        ELSE IF DGt(raw, outputMax_) THEN outputMax_
        ELSE IF DLt(raw, outputMin_) THEN outputMin_
        ELSE raw

\* C11: for fixed gains and limits, the first compute(e) after reset() returns
\* an output, and leaves an integral and a lastError, that depend on the
\* gains, the limits and e only, whatever compute() calls preceded the reset().
C11_ResetForgetsHistory ==
    [][\A error \in ErrorValues :
          (fresh /\ Compute(error))
             => /\ output' = C11_FreshOutput(error)
                /\ integral_' = C11_FreshIntegral(error)
                /\ lastError_' = error]_vars

\* a controller with an integral gain that was reset after compute() calls
\* which returned a non-zero output
C11_Witness ==
    /\ fresh
    /\ output # Fin(0)
    /\ DNe(ki_, Fin(0))
    /\ limitsEnabled_

\* the output is not held at a limit
NotSaturating ==
    ~limitsEnabled_ \/ (DLt(outputMin_, output) /\ DLt(output, outputMax_))

\* C12 as stated: with finite gains and limits that are not saturating,
\* repeated compute(0) calls bring the returned output to 0.
C12_ZeroErrorOutputReachesZero ==
    (zeroRun = MaxZeroRun /\ FiniteGains /\ NotSaturating) => output = Fin(0)

\* C12 as amended: with finite gains every compute(0) leaves the integral
\* where it is, and every compute(0) that directly follows a compute(0)
\* returns ki * integral, clamped to the limits when they are enabled.
C12_ZeroErrorHoldsIntegralTerm ==
    [][(Compute(Fin(0)) /\ FiniteGains)
          => /\ integral_' = integral_
             /\ zeroRun >= 1 => output' = Clamp(DMul(ki_, integral_))]_vars

\* repeated compute(0) calls on a controller holding a non-zero integral term
C12_Witness ==
    /\ zeroRun = MaxZeroRun
    /\ FiniteGains
    /\ DNe(DMul(ki_, integral_), Fin(0))
    /\ output = DMul(ki_, integral_)

-----------------------------------------------------------------------------
(* Command protocol claims *)

\* the two gains other than the one letter g names
OtherGains(g) ==
    CASE g = "p" -> <<ki_, kd_>>
      [] g = "i" -> <<kp_, kd_>>
      [] g = "d" -> <<kp_, ki_>>

\* position of the decimal point of a token, 0 when it has none
DotPosition(v) ==
    IF \E i \in 1..Len(v) : v[i] = "." THEN CHOOSE i \in 1..Len(v) : v[i] = "." ELSE 0

\* a decimal token with at most 3 decimals, written with exactly 3
Decimals3(v) ==
    IF DotPosition(v) = 0 THEN v \o <<".", "0", "0", "0">>
    ELSE v \o SubSeq(<<"0", "0", "0">>, 1, 3 - (Len(v) - DotPosition(v)))

\* the state a malformed command must leave alone
ProtocolState == <<pidVars, baseSpeed, loggingFlags, motorEn>>

\* C13: after `pid <g> <v>`, a following `pid <g> ?` emits the single line
\* `pid <g> ` followed by v with exactly 3 decimals, and neither command
\* changes the other two gains, the integral or lastError.
C13_SetThenReadGain ==
    [][\A g \in {"p", "i", "d"} : \A v \in PidValueTokens \ {TokQuery} :
          /\ cmdline' = <<TokPid, <<g>>, v>>
                => UNCHANGED <<OtherGains(g), integral_, lastError_>>
          /\ (cmdline = <<TokPid, <<g>>, v>> /\ cmdline' = <<TokPid, <<g>>, TokQuery>>)
                => /\ serial' = << <<"pid ", g, " ">> \o Decimals3(v) >>
                   /\ UNCHANGED <<kp_, ki_, kd_, integral_, lastError_>>]_vars

\* `pid p 2.5` then `pid p ?` has answered `pid p 2.500`
C13_Witness ==
    /\ cmdline = <<TokPid, <<"p">>, TokQuery>>
    /\ serial = << <<"pid ", "p", " ", "2", ".", "5", "0", "0">> >>
    /\ kp_ = Fin(2500)

\* C14: a `pid <t> <v>` command whose second token is not exactly p, i or d
\* emits the invalid-parameter message and leaves the three gains unchanged.
\* The handler looks at the first character of t only.
C14_BadGainTokenRejected ==
    [][\A t \in GainTokens \ {<<"p">>, <<"i">>, <<"d">>} :
       \A v \in PidValueTokens \ {TokQuery} :
          cmdline' = <<TokPid, t, v>>
             => /\ serial' = << <<InvalidParameter>> >>
                /\ UNCHANGED <<kp_, ki_, kd_>>]_vars

\* a command line that lacks a token its family requires
MissingToken(ln) ==
    \/ ln[1] \in {TokPid, TokLog} /\ Len(ln) < 3
    \/ ln[1] = TokMotor /\ Len(ln) = 1
    \/ Len(ln) = 2 /\ ln[1] = TokMotor /\ ln[2] = TokSpeed

\* the usage string of the family of such a line
UsageOf(ln) ==
    IF ln[1] = TokPid THEN PidUsage
    ELSE IF ln[1] = TokLog THEN LogUsage
    ELSE IF Len(ln) = 1 THEN MotorUsage
    ELSE MotorSpeedUsage

\* C15: a pid, motor, `motor speed` or log command that misses a required
\* token emits its family's usage string and changes nothing.
C15_MissingTokenUsage ==
    [][(cmdline' # <<>> /\ MissingToken(cmdline'))
          => /\ Len(serial') >= 1
             /\ serial'[1] = <<UsageOf(cmdline')>>
             /\ UNCHANGED ProtocolState]_vars

\* `motor speed` without a value has answered with its usage string
C15_Witness ==
    /\ cmdline = <<TokMotor, TokSpeed>>
    /\ serial = << <<MotorSpeedUsage>> >>
    /\ kp_ = Fin(2500)
    /\ baseSpeed = 5
    /\ motorEn

\* a command line with a token past the end of its grammar
ExtraToken(ln) ==
    \/ ln[1] \in {TokPid, TokLog} /\ Len(ln) > 3
    \/ ln[1] = TokMotor /\ Len(ln) > 3
    \/ ln[1] = TokMotor /\ Len(ln) = 3 /\ ln[2] \in {TokStart, TokStop}

\* C16: a command carrying extra tokens beyond its grammar is malformed: a
\* usage message is emitted and no state is mutated.  The handlers never
\* look past the tokens they need.
C16_ExtraTokenRejected ==
    [][(cmdline' # <<>> /\ ExtraToken(cmdline'))
          => /\ serial' # <<>>
             /\ UNCHANGED ProtocolState]_vars

\* C17: a line whose first token is not a registered command emits
\* `Unknown command: <token>` and the help hint, and changes no state.
C17_UnknownCommand ==
    [][(cmdline' # <<>> /\ cmdline'[1] \notin Registered)
          => /\ serial' = << <<UnknownCommandText>> \o cmdline'[1], <<HelpHint>> >>
             /\ UNCHANGED ProtocolState]_vars

\* `pidx 1` has been answered as an unknown command
C17_Witness ==
    /\ cmdline = <<<<"p", "i", "d", "x">>, <<"1">>>>
    /\ serial = << <<UnknownCommandText, "p", "i", "d", "x">>, <<HelpHint>> >>
    /\ kp_ = Fin(2500)
    /\ motorEn

\* the value `log <c> on` and `log <c> off` leave in each flag
FlagsAfter(c, state) ==
    [logP |-> IF c = "p" THEN state ELSE loggingFlags.logP,
     logI |-> IF c = "i" THEN state ELSE loggingFlags.logI,
     logD |-> IF c = "d" THEN state ELSE loggingFlags.logD,
     logS |-> IF c = "s" THEN state ELSE loggingFlags.logS,
     logL |-> IF c = "l" THEN state ELSE loggingFlags.logL,
     logO |-> IF c = "o" THEN state ELSE loggingFlags.logO]

\* C18: `log <t> on` sets exactly the flag t names and `log <t> off` clears
\* exactly that flag, from any earlier value; the other five flags, the
\* gains and the base speed are unchanged.
C18_LogSetsNamedFlag ==
    [][\A c \in LogLetters :
          /\ cmdline' = <<TokLog, <<c>>, TokOn>>
                => /\ loggingFlags' = FlagsAfter(c, TRUE)
                   /\ UNCHANGED <<kp_, ki_, kd_, baseSpeed>>
          /\ cmdline' = <<TokLog, <<c>>, TokOff>>
                => /\ loggingFlags' = FlagsAfter(c, FALSE)
                   /\ UNCHANGED <<kp_, ki_, kd_, baseSpeed>>]_vars

\* `log l off` has cleared logL after `log p on` and `log o off`
C18_Witness ==
    /\ cmdline = <<TokLog, <<"l">>, TokOff>>
    /\ loggingFlags = [logP |-> TRUE, logI |-> FALSE, logD |-> FALSE,
                       logS |-> TRUE, logL |-> FALSE, logO |-> FALSE]

\* C19: a log command with a valid type and a state token that is neither
\* on nor off changes no logging flag.  The handler takes every state token
\* other than on as off.
C19_BadLogStateRejected ==
    [][\A c \in LogLetters : \A st \in LogStateTokens \ {TokOn, TokOff} :
          cmdline' = <<TokLog, <<c>>, st>> => UNCHANGED loggingFlags]_vars

\* the integer a decimal token denotes
DecimalValue(v) ==
    IF v[1] = "-" THEN -DigitsValue(v, 2, 0) ELSE DigitsValue(v, 1, 0)

\* C20: for every decimal integer v, `motor speed <v>` stores v, 16-bit
\* range or not, and a following `motor speed ?` emits `motor speed <v>`.
\* baseSpeed is an int16_t: 9999999 is stored as -27009.
C20_SpeedStoredExactly ==
    [][\A v \in SpeedValueTokens \ {TokQuery} :
          /\ cmdline' = <<TokMotor, TokSpeed, v>> => baseSpeed' = DecimalValue(v)
          /\ (cmdline = <<TokMotor, TokSpeed, v>> /\ cmdline' = <<TokMotor, TokSpeed, TokQuery>>)
                => serial' = << <<"motor speed ">> \o v >>]_vars

C26_NoGrowthWhileClamped ==
    [][\A e \in ErrorValues :
          (Compute(e) /\ limitsEnabled_ /\ FiniteGains) =>
             /\ DGt(RawOutput(e), outputMax_) => ~DGt(integral_', integral_)
             /\ DLt(RawOutput(e), outputMin_) => ~DLt(integral_', integral_)]_vars

\* C28: clamping is off at construction, is switched on by setOutputLimits()
\* only, and no operation switches it off again.
C28_LimitsStayEnabled ==
    /\ ~limitsEnabled_
    /\ [][/\ limitsEnabled_ => limitsEnabled_'
          /\ (~limitsEnabled_ /\ limitsEnabled_') =>
                \E x \in LimitValues : SetOutputLimits(DNeg(x), x)]_vars

\* limits are still enabled after a gain change and a compute() call
\* that followed setOutputLimits(0, 0)
C28_Witness ==
    /\ limitsEnabled_
    /\ ~fresh
    /\ integral_ = Fin(0) /\ lastError_ # Fin(0)
    /\ kp_ = NaN
    /\ outputMax_ = Whole(0)

\* C29: after every compute(e), lastError_ is e, the error supplied, also
\* when the output was clamped or the anti-windup undid the accumulation.
C29_LastErrorIsError ==
    [][\A e \in ErrorValues : Compute(e) => lastError_' = e]_vars

\* a compute(100) has returned the clamped output 255 and left 100, not 255,
\* in lastError_
C29_Witness ==
    /\ limitsEnabled_ /\ FiniteGains
    /\ ~fresh
    /\ outputMax_ = Whole(255)
    /\ output = outputMax_
    /\ lastError_ = Whole(100)
    /\ DNe(ki_, Fin(0)) /\ integral_ = Whole(100)

\* C30: a frame with contrast < 200 whose channel 0 or channel 7 holds the
\* maximum and exceeds its inward neighbour by at least the edge-difference
\* threshold yields the held previous estimate and leaves last_line_pos as
\* it was.
C30_LowContrastSkipsEdge ==
    [][(/\ EstRead
        /\ LowContrast(adc_line')
        /\ EdgeShaped(adc_line', 0) \/ EdgeShaped(adc_line', ANALOG_PIN_COUNT - 1)) =>
          (line' = last_line_pos /\ last_line_pos' = last_line_pos)]_vars

\* an edge-shaped low-contrast frame has been read while a position that is
\* neither the centre nor an edge value was held
C30_Witness ==
    /\ LowContrast(adc_line)
    /\ EdgeShaped(adc_line, 0) \/ EdgeShaped(adc_line, ANALOG_PIN_COUNT - 1)
    /\ line = last_line_pos
    /\ line \notin {0, -127, 127}

\* the S, L and O lines a cycle owes for the flags, the frame, the position
\* estimate and the controller output it ran with
SloLines ==
    (IF loggingFlags.logS
     THEN << <<"S">> \o <<",">> \o NatChars(adc_line[0]) \o <<",">> \o NatChars(adc_line[1])
                     \o <<",">> \o NatChars(adc_line[2]) \o <<",">> \o NatChars(adc_line[3])
                     \o <<",">> \o NatChars(adc_line[4]) \o <<",">> \o NatChars(adc_line[5])
                     \o <<",">> \o NatChars(adc_line[6]) \o <<",">> \o NatChars(adc_line[7]) >>
     ELSE <<>>)
    \o (IF loggingFlags.logL THEN << <<"L,">> \o IntChars(line) >> ELSE <<>>)
    \o (IF loggingFlags.logO THEN << <<"O,">> \o IntChars(TruncDiv(output.v, 1000)) >> ELSE <<>>)

\* a telemetry line of a gain
IsPidLine(l) == l[1] \in {"pid p ", "pid i ", "pid d "}

\* C21: the telemetry of every control cycle starts with one S line of the
\* cycle's 8 readings iff logS is set, then one L line of the cycle's position
\* estimate iff logL is set, then one O line of the cycle's controller output
\* iff logO is set; no other S, L or O line is written.
C21_SensorLineOutputLines ==
    [][Telemetry =>
          /\ Len(telemetry') >= Len(SloLines)
          /\ SubSeq(telemetry', 1, Len(SloLines)) = SloLines
          /\ \A k \in (Len(SloLines) + 1)..Len(telemetry') : IsPidLine(telemetry'[k])]_vars

\* a cycle on the frame with the line has run with logS cleared and has
\* written its L line and its O line, and nothing else
C21_Witness ==
    /\ ~inCycle
    /\ ~loggingFlags.logS /\ loggingFlags.logL /\ loggingFlags.logO
    /\ adc_line = LineFrame
    /\ line # 0
    /\ telemetry = << <<"L,">> \o IntChars(line), <<"O,">> \o IntChars(motorSpeed) >>

\* the first pieces of the gain lines among the given lines, in order
PidHeads(lines) ==
    LET pid == SelectSeq(lines, IsPidLine)
    IN  [k \in 1..Len(pid) |-> pid[k][1]]

Settings == <<kp_, ki_, kd_, outputMin_, outputMax_, limitsEnabled_, baseSpeed, loggingFlags>>

\* C23: a command line is executed only outside the control task; the gains,
\* the limits, the base speed and the logging flags are the same from the
\* sensor read to the end of the cycle's telemetry, and the gain telemetry of
\* the cycle reports the gains compute() ran with.
C23_NoCommandMidCycle ==
    [][/\ (\E ln \in LoopLines : ReadSerial(ln)) => ~inCycle
       /\ (inCycle \/ inCycle') => UNCHANGED Settings
       /\ Telemetry =>
             \A k \in 1..Len(telemetry') :
                 LET l == telemetry'[k]
                 IN  /\ l[1] = "pid p " => l = <<"pid p ">> \o FloatChars3(kp_)
                     /\ l[1] = "pid i " => l = <<"pid i ">> \o FloatChars3(ki_)
                     /\ l[1] = "pid d " => l = <<"pid d ">> \o FloatChars3(kd_)]_vars

\* after pid p 2.5 a cycle has computed with kp_ = 2.5 on the frame with the
\* line and has reported pid p 2.500
C23_Witness ==
    /\ ~inCycle
    /\ kp_ = Fin(2500)
    /\ adc_line = LineFrame
    /\ lastError_ = Whole(line)
    /\ output = DMul(kp_, lastError_)
    /\ \E k \in 1..Len(telemetry) :
          telemetry[k] = <<"pid p ", "2", ".", "5", "0", "0">>

\* the gains, the output limits and the logging flags
Tuning == <<kp_, ki_, kd_, outputMin_, outputMax_, limitsEnabled_, loggingFlags>>

\* C24: the control cycle and the 100 ms task leave the gains, the output
\* limits and the logging flags as they are, and so does every step that is
\* not a command line; the cycle also leaves the base speed, the motor
\* enable and the edge threshold alone.
C24_CycleLeavesTuning ==
    [][/\ ((\E frame \in LoopFrames : ControlTask(frame)) \/ Telemetry) =>
             UNCHANGED <<Tuning, baseSpeed, motorEn, edgeDiffThreshold>>
       /\ (\E button \in LoopButtons : Button_Update(button)) => UNCHANGED Tuning
       /\ Tuning' # Tuning => \E ln \in LoopLines : ReadSerial(ln)]_vars

\* with the gain and the flag that commands have set, cycles have run and the
\* 100 ms task has handled button 2
C24_Witness ==
    /\ ~inCycle
    /\ kp_ = Fin(2500) /\ loggingFlags.logP /\ loggingFlags.logS
    /\ lastError_ # Fin(0)
    /\ telemetry # <<>>
    /\ serial = << <<"Button 2 pressed">> >>

\* C27 as claimed: a motor start command, button 1 or an IR speed command
\* resets the controller, so that the next control cycle starts from
\* integral_ = 0 and lastError_ = 0.
C27_EngageResetsController ==
    [][(\/ ReadSerial(<<TokMotor, TokStart>>)
        \/ Button_Update(1)
        \/ \E command \in LoopIrCodes \cap DOMAIN IrSpeeds : IR_Update(command)) =>
          (integral_' = Fin(0) /\ lastError_' = Fin(0))]_vars


-----------------------------------------------------------------------------
(* Estimator claims: centroid, low-signal branch, ambient offset *)

\* n_i = reading_i - min over the frame
AboveMin(array) == LET m == FindMin(array) IN [i \in Channels |-> array[i] - m]

\* sum(n_i) and sum(n_i * w_i), the weights doubled
SumOf(f) == f[0] + f[1] + f[2] + f[3] + f[4] + f[5] + f[6] + f[7]
Moment2(f) == 105 * (f[7] - f[0]) + 75 * (f[6] - f[1]) + 45 * (f[5] - f[2]) + 15 * (f[4] - f[3])

\* q is num / den (den > 0) clamped to [-127, 127] and then truncated toward zero
IsClampedTruncation(q, num, den) ==
    \/ num >= 127 * den /\ q = 127
    \/ num <= -127 * den /\ q = -127
    \/ /\ num >= 0 /\ num < 127 * den
       /\ q >= 0 /\ q * den <= num /\ num < (q + 1) * den
    \/ /\ num <= 0 /\ num > -127 * den
       /\ q <= 0 /\ q * den >= num /\ num > (q - 1) * den

\* the frame is an edge frame: one of the two edge tests reports an edge
EdgeFrame(array) ==
    EdgeShaped(array, 0) \/ EdgeShaped(array, ANALOG_PIN_COUNT - 1)

\* per frame: whether it passes the contrast gate with a normalized sum of at
\* least 100, and the numerator and denominator of its scaled centroid
CentroidOf == [array \in Frames |->
                 LET n == AboveMin(array)
                 IN  [applies |-> FindMax(array) - FindMin(array) >= MIN_CONTRAST
                                     /\ SumOf(n) >= MIN_SIGNAL_SUM,
                      num |-> 127 * Moment2(n),
                      den |-> 105 * SumOf(n)]]

SignalOf == [array \in Frames |-> [contrast |-> Contrast(array), sum |-> SignalSum(array)]]

\* C36: for every frame with contrast >= 200 the normalized sum is at least
\* the contrast, the test sum < 100 fails, and the estimator holds its previous
\* value only on frames with contrast < 200.
C36_LowSignalUnreachable ==
    [][EstRead =>
          /\ SignalOf[adc_line'].contrast >= MIN_CONTRAST =>
                /\ SignalOf[adc_line'].sum >= SignalOf[adc_line'].contrast
                /\ SignalOf[adc_line'].sum >= MIN_CONTRAST
                /\ ~(SignalOf[adc_line'].sum < MIN_SIGNAL_SUM)
          /\ BranchOf[adc_line', CurrentThreshold].hold =>
                SignalOf[adc_line'].contrast < MIN_CONTRAST]_vars

\* a frame whose normalized sum equals its contrast, the smallest the gate
\* lets through, has been read past the edge tests and has moved the estimate
C36_Witness ==
    /\ Contrast(adc_line) = MIN_CONTRAST
    /\ SignalSum(adc_line) = Contrast(adc_line)
    /\ ~EdgeFrame(adc_line)
    /\ ~BranchOf[adc_line, CurrentThreshold].hold
    /\ line = Centroid(adc_line)
    /\ line # 0
    /\ last_line_pos = line

\* the frame with c added to every channel
Offset(array, c) == [i \in Channels |-> array[i] + c]

\* the offsets that keep a frame among the frames of the model
AmbientOffsets == {k * AmbientStep : k \in (-MaxAmbient)..MaxAmbient} \ {0}

\* C37: a frame and the same frame with a constant added to all eight
\* channels yield the same estimate and the same last_line_pos, from any
\* previous last_line_pos.
C37_AmbientOffsetInvariant ==
    [][EstRead =>
          \A c \in AmbientOffsets :
              Offset(adc_line', c) \in Frames =>
                  EstimateLine(Offset(adc_line', c), last_line_pos, CurrentThreshold)
                      = [ret |-> line', last |-> last_line_pos']]_vars

\* a frame above a raised ambient level has been read and has given the
\* off-centre estimate of the same frame without the ambient level
C37_Witness ==
    /\ FindMin(adc_line) >= AmbientStep
    /\ Offset(adc_line, -AmbientStep) \in Frames
    /\ ~LowContrast(adc_line)
    /\ ~EdgeFrame(adc_line)
    /\ line = Centroid(Offset(adc_line, -AmbientStep))
    /\ line \notin {0, -127, 127}
    /\ last_line_pos = line


-----------------------------------------------------------------------------
(* PID claims: the integral while ki is 0 *)

\* C38: a compute() call made while ki is 0 leaves the integral unchanged,
\* setKi() leaves it unchanged whatever the new gain, and the output of every
\* compute() call is the clamped kp * e + ki * integral + kd * (e - lastError)
\* with the integral as the call leaves it, so an integral kept through a
\* time with ki = 0 contributes again once ki is nonzero.
C38_IntegralKeptWhileKiZero ==
    [][/\ \A e \in ErrorValues :
             Compute(e) =>
                /\ ki_ = Fin(0) => integral_' = integral_
                /\ output' = Clamp(DAdd(DAdd(DMul(kp_, e), DMul(ki_, integral_')),
                                        DMul(DSub(e, lastError_), kd_)))
       /\ \A ki \in GainValues : SetKi(ki) => integral_' = integral_]_vars

\* an integral of 200 accumulated earlier is still there after a compute(-100)
\* call made with ki = 0 and no limits
C38_Witness ==
    /\ ki_ = Fin(0)
    /\ ~limitsEnabled_
    /\ ~fresh
    /\ integral_ = Whole(200)
    /\ lastError_ = Whole(-100)


-----------------------------------------------------------------------------
(* Command protocol claims: selection by the first character *)

PidLetters == {"p", "i", "d"}

\* the gain a letter names
GainOf(c) == CASE c = "p" -> kp_ [] c = "i" -> ki_ [] c = "d" -> kd_

\* the gain a letter names is now value, the other two are as before
GainSet(c, value) ==
    CASE c = "p" -> kp_' = value /\ UNCHANGED <<ki_, kd_>>
      [] c = "i" -> ki_' = value /\ UNCHANGED <<kp_, kd_>>
      [] c = "d" -> kd_' = value /\ UNCHANGED <<kp_, ki_>>

\* the line with its type token cut down to the first character
FirstLetterLine(ln) == [ln EXCEPT ![2] = <<ln[2][1]>>]

\* some line written to Serial ends with the text
Answers(text) ==
    \E k \in 1..Len(serial') : serial'[k][Len(serial'[k])] = text

\* a pid or log line with its type and value tokens has been read
TypedLine(family) ==
    /\ cmdline' # <<>>
    /\ cmdline'[1] = family
    /\ Len(cmdline') >= 3

\* the invalid-parameter and invalid-log-type messages are printed for the
\* type tokens whose first character names no target, and for no other line
InvalidOnlyOutsideSet ==
    /\ Answers(InvalidParameter) <=>
          (TypedLine(TokPid) /\ cmdline'[2][1] \notin PidLetters)
    /\ Answers(InvalidLogType) <=>
          (TypedLine(TokLog) /\ cmdline'[2][1] \notin LogLetters)
    /\ (Answers(InvalidParameter) \/ Answers(InvalidLogType)) =>
          UNCHANGED <<kp_, ki_, kd_, loggingFlags>>

-----------------------------------------------------------------------------
(* Main loop claims: the wheel outputs *)

\* x clamped to [-maxSpeed, maxSpeed]
ClampToMaxSpeed(x) ==
    IF x > MaxSpeed THEN MaxSpeed ELSE IF x < -MaxSpeed THEN -MaxSpeed ELSE x

\* C39: in every control cycle whose correction c = motorSpeed is within
\* [-255, 255], whatever base speed the commands and the IR remote have set,
\* the left wheel is written clamp(base - c) and the right wheel
\* clamp(base + c), the sums taken without wrap-around: each duty has
\* magnitude <= maxSpeed <= 255 and the sign of its sum.
C39_WheelsClampedNoWrap ==
    [][(~inCycle /\ inCycle' /\ motorSpeed' \in -OUTPUT_LIMIT..OUTPUT_LIMIT) =>
          /\ motorPwm'[1] = ClampToMaxSpeed(baseSpeed - motorSpeed')
          /\ motorPwm'[2] = ClampToMaxSpeed(baseSpeed + motorSpeed')
          /\ \A k \in 1..2 : motorPwm'[k] \in -MaxSpeed..MaxSpeed
          /\ MaxSpeed <= 255
          /\ Sgn(motorPwm'[1]) = Sgn(baseSpeed - motorSpeed')
          /\ Sgn(motorPwm'[2]) = Sgn(baseSpeed + motorSpeed')]_vars

=============================================================================
